---------------------------- MODULE Spec2Model ----------------------------
(***************************************************************************)
(* A model of the competition-queue board server (pages/api/socket.ts,     *)
(* lib/state.ts, lib/roster.ts, pages/api/reload-roster.ts).               *)
(*                                                                         *)
(* Encoding of JavaScript values:                                          *)
(*   - a timestamp is a positive number of milliseconds; null/undefined    *)
(*     timestamps are NullTs (0).  The wall clock starts at T0 > 0, so no  *)
(*     real timestamp is 0 and the code's truthiness tests (!!x, !x) and   *)
(*     its null tests (x ?? null, x != null) agree on the encoding.        *)
(*   - a null team is NoTeam, a null/undefined team id is NoId.            *)
(*   - an undefined pad status / event status is Undef.                    *)
(***************************************************************************)
EXTENDS Integers, Sequences, FiniteSets, TLC

(***************************************************************************)
(* Bounds of the model.                                                    *)
(***************************************************************************)
\* commands issued in one behaviour
MaxSteps == 3
\* clock ticks in one behaviour
MaxTicks == 1
\* pad ids that commands and rosters name: 1..MaxPad
MaxPad == 2
\* commands issued in one behaviour of the break scenario
MaxBreakSteps == 6
\* commands and clock ticks in one behaviour of the event-clock scenario
MaxEventSteps == 5
MaxEventTicks == 2
\* longest standby list a command may still extend
MaxStandby == 3
\* chat messages created in one behaviour
MaxMsgs == 3
\* commands issued in one behaviour of the messaging scenario
MaxCommSteps == 6
ShortTickMs == 500
MaxSaveSteps == 5
MaxSaveTicks == 4
MaxLoadSteps == 3
MaxThrowSteps == 4
MaxFlushSteps == 4
MaxFlushTicks == 3
MaxEndBreakSteps == 4
MaxPadsSteps == 5
MaxQueueSteps == 4
MaxRoundSteps == 5
MaxRoundTicks == 2

(***************************************************************************)
(* Program constants.                                                      *)
(***************************************************************************)
REPORT_WINDOW_MS == 5 * 60 * 1000
MAX_AUDIT == 800
MAX_UNDO_PER_PAD == 35
MAX_CHAT_PER_PAD == 220
DEBOUNCE_MS == 1000
\* buildStateFromRosterCsv always builds pads 1..8
RosterPadCount == 8
\* Math.max(10, Math.min(60 * 30, ...)) in updateCycleStats
MinCycleSec == 10
MaxCycleSec == 60 * 30

NullTs == 0
NoId == ""
Undef == "undefined"
NoTeam == [id |-> NoId, tag |-> ""]
\* an undefined pad id (socket.data.padId before comm:joinPad) and a message
\* id that names no message
NoPad == 0
NoMsg == 0
\* a file that does not exist
NoFile == [exists |-> FALSE, complete |-> FALSE, mtime |-> NullTs, channels |-> <<>>]

\* the wall clock at server start, and the length of one clock tick (ms)
T0 == 1000000
TickMs == 60000

TeamIds == {"A", "B", "C"}
CmdPads == 1..MaxPad
Sockets == {"admin1", "judge1", "public1"}
RoleOf(s) == IF s = "admin1" THEN "admin" ELSE IF s = "judge1" THEN "judge" ELSE "public"

Max(a, b) == IF a >= b THEN a ELSE b
Min(a, b) == IF a <= b THEN a ELSE b

Team(id, tag) == [id |-> id, tag |-> tag]

VARIABLES
    boardState,   \* G.boardState
    padHistory,   \* G.padHistory: pad id -> stack of snapshots
    audit,        \* G.audit
    nowMs,        \* Date.now()
    commChannels,   \* G.commChannels: pad id -> the ids of its messages, in order
    chatMsgs,       \* the ChatMessage objects ever created, by message id
    commAdmins,     \* G.commAdmins
    commPadViewers, \* G.commPadViewers: pad id -> connections viewing it
    commJudges,     \* G.commJudges: connection -> the pad of its presence record
    sockPad,        \* socket.data.padId of each connection (NoPad: undefined)
    commChannelsLoaded, \* G.commChannelsLoaded
    saveScheduled,  \* commPersistence.ts saveScheduled
    saveTimer,      \* commPersistence.ts saveTimer: when it is due (NullTs: null)
    commFile,       \* the durable file comm_state.json
    commTmp,        \* the temporary file comm_state.json.tmp
    clientView,     \* the "state" and "audit" events each connection received last
    errorLog,       \* what console.error has printed: time and origin of each error
    urgentAcked,    \* the "comm:urgentAcked" events emitted: recipient, pad, message id
    cmdsLeft,     \* commands the behaviour may still issue
    ticksLeft     \* clock ticks the behaviour may still take

boardVars == <<boardState, padHistory, audit>>
commVars == <<commChannels, chatMsgs, commAdmins, commPadViewers, commJudges, sockPad>>
saveVars == <<saveScheduled, saveTimer>>
diskVars == <<commChannelsLoaded, commFile, commTmp>>
vars == <<boardState, padHistory, audit, nowMs, commChannels, chatMsgs, commAdmins,
          commPadViewers, commJudges, sockPad, commChannelsLoaded, saveScheduled,
          saveTimer, commFile, commTmp, clientView, errorLog, urgentAcked, cmdsLeft,
          ticksLeft>>

(***************************************************************************)
(* lib/state.ts                                                            *)
(***************************************************************************)
createPad(id, t) ==
    [ id |-> id, label |-> <<"Area", id>>,
      now |-> NoTeam, onDeck |-> NoTeam, standby |-> <<>>,
      note |-> "",
      nowArrivedAt |-> NullTs, nowArrivedTeamId |-> NoId,
      lastCompleteAt |-> NullTs,
      reportByDeadlineAt |-> NullTs, reportByTeamId |-> NoId,
      status |-> "IDLE",
      breakUntilAt |-> NullTs, breakReason |-> "", breakStartAt |-> NullTs,
      runStartedAt |-> NullTs, lastRunEndedAt |-> NullTs,
      updatedAt |-> t ]

createInitialState(t) ==
    [ pads |-> <<>>,
      nextPadId |-> 1,
      updatedAt |-> t,
      globalBreakStartAt |-> NullTs, globalBreakUntilAt |-> NullTs,
      globalBreakReason |-> "",
      globalMessage |-> "", globalMessageUntilAt |-> NullTs,
      cycleStatsByPad |-> <<>>,
      cycleStatsByLabel |-> <<>>,
      eventHeaderLabel |-> "COMPETITION MATRIX",
      eventStatus |-> "PLANNING",
      eventStartAt |-> NullTs,
      eventPaused |-> FALSE,
      eventPausedAt |-> NullTs,
      eventPausedAccumMs |-> 0 ]

\* a faulty clock that keeps running while the event is paused
getCompetitionNowMsRunsOn(state, realNowMs) ==
    IF state.eventStatus # "LIVE" THEN NullTs
    ELSE realNowMs - state.eventPausedAccumMs

getCompetitionNowMs(state, realNowMs) ==
    IF state.eventStatus # "LIVE" THEN NullTs
    ELSE IF state.eventPaused /\ state.eventPausedAt # NullTs
         THEN state.eventPausedAt - state.eventPausedAccumMs
         ELSE realNowMs - state.eventPausedAccumMs


(***************************************************************************)
(* pages/api/socket.ts: core helpers over one pad                          *)
(***************************************************************************)
Unshift(seq, x) == <<x>> \o seq

setStatus(pad, status, t) == [pad EXCEPT !.status = status, !.updatedAt = t]

isArrivedForNow(pad) ==
    /\ pad.nowArrivedAt # NullTs
    /\ pad.nowArrivedTeamId # NoId
    /\ pad.now # NoTeam
    /\ pad.nowArrivedTeamId = pad.now.id

\* a faulty timer start whose deadline is the instant of the start
startReportTimerNoWindow(pad, t) ==
    setStatus([pad EXCEPT
                 !.reportByTeamId = pad.now.id,
                 !.reportByDeadlineAt = IF pad.now # NoTeam THEN t ELSE NullTs],
              IF pad.now # NoTeam THEN "REPORTING" ELSE "IDLE", t)

startReportTimerForNow(pad, t) ==
    setStatus([pad EXCEPT
                 !.reportByTeamId = pad.now.id,
                 !.reportByDeadlineAt =
                     IF pad.now # NoTeam THEN t + REPORT_WINDOW_MS ELSE NullTs],
              IF pad.now # NoTeam THEN "REPORTING" ELSE "IDLE", t)

clearArrivalForNow(pad) ==
    [pad EXCEPT !.nowArrivedAt = NullTs, !.nowArrivedTeamId = NoId,
                !.runStartedAt = NullTs]

markArrived(pad, t) ==
    setStatus([pad EXCEPT !.nowArrivedAt = t,
                          !.nowArrivedTeamId = pad.now.id,
                          !.reportByTeamId = NoId,
                          !.reportByDeadlineAt = NullTs,
                          !.runStartedAt = t],
              "ON_PAD", t)

markNowTeam(pad, tag, t) ==
    IF pad.now = NoTeam THEN pad
    ELSE [pad EXCEPT !.now.tag = tag, !.updatedAt = t]

swapNowOnDeck(pad, t) ==
    startReportTimerForNow(
        clearArrivalForNow([pad EXCEPT !.now = pad.onDeck, !.onDeck = pad.now,
                                       !.breakUntilAt = NullTs, !.breakReason = "",
                                       !.breakStartAt = NullTs]),
        t)

skipOnDeck(pad, t) ==
    IF pad.onDeck = NoTeam THEN pad
    ELSE LET moved == [pad.onDeck EXCEPT !.tag = "SKIPPED"]
             nextOnDeck == IF Len(pad.standby) > 0 THEN Head(pad.standby) ELSE NoTeam
             nextStandby == IF Len(pad.standby) > 0 THEN Tail(pad.standby) ELSE <<>>
         IN  [pad EXCEPT !.onDeck = nextOnDeck,
                         !.standby = Append(nextStandby, moved),
                         !.updatedAt = t]

clearPad(pad, t) ==
    setStatus(
        [clearArrivalForNow(
            [pad EXCEPT !.now = NoTeam, !.onDeck = NoTeam, !.standby = <<>>,
                        !.note = "",
                        !.breakUntilAt = NullTs, !.breakReason = "",
                        !.breakStartAt = NullTs])
         EXCEPT !.lastCompleteAt = NullTs, !.reportByTeamId = NoId,
                !.reportByDeadlineAt = NullTs],
        "IDLE", t)

\* now <- onDeck <- standby[0]: the advance shared by judge:complete (lines
\* 1216-1222) and advanceWithoutComplete (lines 420-426)
\* a faulty advance that leaves the promoted team at the head of standby
AdvanceQueueKeepsHead(pad) ==
    [pad EXCEPT !.now = pad.onDeck,
                !.onDeck = IF Len(pad.standby) > 0 THEN Head(pad.standby) ELSE NoTeam]

AdvanceQueue(pad) ==
    [pad EXCEPT !.now = pad.onDeck,
                !.onDeck = IF Len(pad.standby) > 0 THEN Head(pad.standby) ELSE NoTeam,
                !.standby = IF Len(pad.standby) > 0 THEN Tail(pad.standby) ELSE <<>>]

advanceWithoutComplete(pad, t) ==
    startReportTimerForNow(
        [clearArrivalForNow(AdvanceQueue(pad)) EXCEPT !.breakStartAt = NullTs], t)

insertTeamIntoPad(pad, t, where, team) ==
    IF where = "NOW" THEN
        startReportTimerForNow(
            clearArrivalForNow(
                [pad EXCEPT
                   !.standby = IF pad.onDeck # NoTeam
                               THEN Unshift(pad.standby, pad.onDeck) ELSE pad.standby,
                   !.onDeck = IF pad.now # NoTeam THEN pad.now ELSE pad.onDeck,
                   !.now = team]),
            t)
    ELSE IF where = "ONDECK" THEN
        [pad EXCEPT
           !.standby = IF pad.onDeck # NoTeam
                       THEN Unshift(pad.standby, pad.onDeck) ELSE pad.standby,
           !.onDeck = team,
           !.updatedAt = t]
    ELSE [pad EXCEPT !.standby = Append(pad.standby, team), !.updatedAt = t]

RemoveAt(seq, i) == SubSeq(seq, 1, i - 1) \o SubSeq(seq, i + 1, Len(seq))
InsertAt(seq, i, x) == SubSeq(seq, 1, i - 1) \o <<x>> \o SubSeq(seq, i, Len(seq))

\* indices are 0-based as in the code
moveItem(arr, from, to) ==
    IF from < 0 \/ from >= Len(arr) THEN arr
    ELSE LET item == arr[from + 1]
             a == RemoveAt(arr, from + 1)
             clamped == Max(0, Min(Len(a), to))
         IN  InsertAt(a, clamped + 1, item)

FilterOutId(seq, teamId) == SelectSeq(seq, LAMBDA x : x.id # teamId)

FirstIndexOfId(seq, teamId) ==
    IF \E i \in 1..Len(seq) : seq[i].id = teamId
    THEN CHOOSE i \in 1..Len(seq) :
            /\ seq[i].id = teamId
            /\ \A j \in 1..(i - 1) : seq[j].id # teamId
    ELSE 0

\* returns the pad after the extraction and the extracted team (NoTeam if absent)
extractTeamFromPad(pad, teamId) ==
    IF pad.now # NoTeam /\ pad.now.id = teamId
    THEN [pad |-> [pad EXCEPT !.now = NoTeam], team |-> pad.now]
    ELSE IF pad.onDeck # NoTeam /\ pad.onDeck.id = teamId
    THEN [pad |-> [pad EXCEPT !.onDeck = NoTeam], team |-> pad.onDeck]
    ELSE IF FirstIndexOfId(pad.standby, teamId) > 0
    THEN [pad |-> [pad EXCEPT !.standby = FilterOutId(pad.standby, teamId)],
          team |-> pad.standby[FirstIndexOfId(pad.standby, teamId)]]
    ELSE [pad |-> pad, team |-> NoTeam]

(***************************************************************************)
(* Soft ETA model.  avgSec is kept as the exact sum of the samples         *)
(* (avgSec * count), so that the rolling mean needs no fractions.  The     *)
(* "pad:N" key of cycleStatsByKey receives the same updates as             *)
(* cycleStatsByPad[N] and is not kept twice; cycleStatsByLabel is the      *)
(* "label:..." part of cycleStatsByKey.                                    *)
(***************************************************************************)
nextStats(stats, key, newSec, t) ==
    LET prev == IF key \in DOMAIN stats THEN stats[key]
                ELSE [count |-> 0, sumSec |-> 0, lastSec |-> 0, updatedAt |-> NullTs]
        next == [count |-> prev.count + 1, sumSec |-> prev.sumSec + newSec,
                 lastSec |-> newSec, updatedAt |-> t]
    IN  [k \in DOMAIN stats \cup {key} |-> IF k = key THEN next ELSE stats[k]]

updateCycleStats(state, pad, durationMs, t) ==
    LET d == Max(MinCycleSec, Min(MaxCycleSec, durationMs \div 1000))
    IN  [state EXCEPT
           !.cycleStatsByPad = nextStats(state.cycleStatsByPad, pad.id, d, t),
           !.cycleStatsByLabel =
               IF pad.label # "" THEN nextStats(state.cycleStatsByLabel, pad.label, d, t)
               ELSE state.cycleStatsByLabel]

(***************************************************************************)
(* Board-level helpers                                                     *)
(***************************************************************************)
PadIdsOf(state) == DOMAIN state.pads

getPadById(state, padId) == state.pads[padId]

SetPad(state, pad) == [state EXCEPT !.pads[pad.id] = pad]

MaxPadIdOf(state) ==
    IF PadIdsOf(state) = {} THEN 0
    ELSE CHOOSE m \in PadIdsOf(state) : \A i \in PadIdsOf(state) : i <= m

recomputeNextPadId(state) ==
    [state EXCEPT !.nextPadId = Max(state.nextPadId, MaxPadIdOf(state) + 1)]

sanitizePad(p, t) ==
    LET p1 == [p EXCEPT !.status =
                   IF p.status = Undef
                   THEN (IF p.now # NoTeam THEN "REPORTING" ELSE "IDLE")
                   ELSE p.status]
        breakActive == p1.breakUntilAt # NullTs /\ p1.breakUntilAt > t
        p2 == IF /\ ~breakActive
                 /\ p1.now # NoTeam
                 /\ p1.reportByDeadlineAt = NullTs
                 /\ ~isArrivedForNow(p1)
              THEN startReportTimerForNow(p1, t)
              ELSE p1
    IN  IF isArrivedForNow(p2)
        THEN [p2 EXCEPT !.reportByTeamId = NoId,
                        !.reportByDeadlineAt = NullTs,
                        !.status = IF p2.status = "RUNNING" THEN "RUNNING" ELSE "ON_PAD",
                        !.runStartedAt = IF p2.runStartedAt = NullTs
                                         THEN p2.nowArrivedAt ELSE p2.runStartedAt]
        ELSE p2

sanitizeStateAfterAnyLoad(state, t) ==
    LET s1 == recomputeNextPadId(state)
    IN  [s1 EXCEPT !.pads = [i \in DOMAIN s1.pads |-> sanitizePad(s1.pads[i], t)],
                   !.updatedAt = t]


(***************************************************************************)
(* Audit log and undo stacks                                               *)
(***************************************************************************)
KeepLast(seq, n) == IF Len(seq) > n THEN SubSeq(seq, Len(seq) - n + 1, Len(seq)) ELSE seq

\* padId 0 stands for padId: null
pushAudit(log, t, padId, action) ==
    KeepLast(Append(log, [ts |-> t, padId |-> padId, action |-> action]), MAX_AUDIT)

\* JSON.parse(JSON.stringify(G.boardState)): the board holds only finite
\* numbers, strings, booleans, null, arrays and plain objects, which the JSON
\* round trip copies unchanged
stackOf(hist, padId) == IF padId \in DOMAIN hist THEN hist[padId] ELSE <<>>

snapshotForUndo(hist, padId, state) ==
    [k \in DOMAIN hist \cup {padId} |->
        IF k = padId
        THEN KeepLast(Append(stackOf(hist, padId), state), MAX_UNDO_PER_PAD)
        ELSE hist[k]]

undoAvailable(hist, padId) == Len(stackOf(hist, padId)) > 0

\* stack.pop(): the stack without its top, and the popped snapshot
undoForPad(hist, padId) ==
    [hist EXCEPT ![padId] = SubSeq(hist[padId], 1, Len(hist[padId]) - 1)]

undoTop(hist, padId) == hist[padId][Len(hist[padId])]

\* delete G.padHistory[key]
deleteStack(hist, padId) == [k \in DOMAIN hist \ {padId} |-> hist[k]]

\* pad ids a payload may carry
AllPadIds == CmdPads

globalBreakActive(state, t) ==
    /\ (state.globalBreakStartAt = NullTs \/ t >= state.globalBreakStartAt)
    /\ state.globalBreakUntilAt # NullTs
    /\ t < state.globalBreakUntilAt

(***************************************************************************)
(* lib/roster.ts.  A roster is the CSV's rows in file order, each row a    *)
(* team id with the pad assignPad gives it; NoRoster is a missing or       *)
(* unreadable file (buildStateFromRosterCsv returns null).                 *)
(***************************************************************************)
RosterTeamOrder == <<"A", "B", "C">>
NoRoster == <<0>>
\* three teams on pad 1; two on pad 1 and one on pad MaxPad; a CSV without rows
Rosters == {<<1, 1, 1>>, <<1, 1, MaxPad>>, <<>>}

RECURSIVE TeamsOfPad(_, _, _)
TeamsOfPad(roster, id, i) ==
    IF i > Len(roster) THEN <<>>
    ELSE (IF roster[i] = id THEN <<Team(RosterTeamOrder[i], "")>> ELSE <<>>)
         \o TeamsOfPad(roster, id, i + 1)

rosterPad(id, teams, t) ==
    [createPad(id, t) EXCEPT
       !.label = <<"Roster", id>>,
       !.now = IF Len(teams) >= 1 THEN teams[1] ELSE NoTeam,
       !.onDeck = IF Len(teams) >= 2 THEN teams[2] ELSE NoTeam,
       !.standby = IF Len(teams) >= 3 THEN SubSeq(teams, 3, Len(teams)) ELSE <<>>,
       !.status = Undef]

\* the fields the built state does not carry are undefined: eventStatus is
\* Undef, eventPaused reads as false and eventPausedAccumMs as 0 (?? 0)
buildStateFromRosterCsv(roster, t) ==
    [createInitialState(t) EXCEPT
       !.pads = [id \in 1..RosterPadCount |-> rosterPad(id, TeamsOfPad(roster, id, 1), t)],
       !.nextPadId = RosterPadCount + 1,
       !.eventStatus = Undef]


(***************************************************************************)
(* The server.  Every command handler runs to completion (single event     *)
(* loop); emitState sanitizes the board before it is broadcast.            *)
(*                                                                         *)
(* Teams are modelled as values.  In the code two slots of a pad can hold  *)
(* the same Team object (insertTeamIntoPad at NOW with an empty NOW), and  *)
(* an in-place edit of one of them (tag, id) then shows in both; the model *)
(* edits the slot the handler names.                                       *)
(***************************************************************************)
emitState(state, t) == sanitizeStateAfterAnyLoad(state, t)

\* G.commChannels after ensureChannelsForPads over the pads of state
ensureChannelsForPads(channels, state) ==
    [k \in DOMAIN channels \cup PadIdsOf(state) |->
        IF k \in DOMAIN channels THEN channels[k] ELSE <<>>]

Touch(state, t) == [state EXCEPT !.updatedAt = t]

\* a command is handled by a running server
CanCmd == cmdsLeft > 0 /\ commChannelsLoaded

\* a board command that ends in emitState, which also ensures the channels
Done(state, hist, log) ==
    /\ boardState' = state
    /\ padHistory' = hist
    /\ audit' = log
    /\ commChannels' = ensureChannelsForPads(commChannels, state)
    /\ cmdsLeft' = cmdsLeft - 1
    /\ UNCHANGED <<nowMs, ticksLeft, chatMsgs, commAdmins, commPadViewers, commJudges, sockPad>>
    /\ clientView' = [s \in Sockets |-> <<state, log>>]
    /\ UNCHANGED <<saveVars, diskVars, errorLog, urgentAcked>>

\* a board command that returns before emitState
DoneNoEmit(state, hist, log) ==
    /\ boardState' = state
    /\ padHistory' = hist
    /\ audit' = log
    /\ cmdsLeft' = cmdsLeft - 1
    /\ UNCHANGED <<nowMs, ticksLeft, commVars, saveVars, diskVars, errorLog, urgentAcked, clientView>>

\* the common effect of a pad command: snapshot, change the pad, audit, emit
PadDone(padId, pad, action) ==
    Done(emitState(Touch(SetPad(boardState, pad), nowMs), nowMs),
         snapshotForUndo(padHistory, padId, boardState),
         pushAudit(audit, nowMs, padId, action))

HasPad(padId) == padId \in PadIdsOf(boardState)

\* the server after its first request: a fresh board (no state file), no
\* durable chat file, no connection registered; cmds and tks bound the run
Start(cmds, tks) ==
    /\ nowMs = T0
    /\ boardState = sanitizeStateAfterAnyLoad(createInitialState(T0), T0)
    /\ padHistory = <<>>
    /\ audit = <<>>
    /\ commChannels = <<>>
    /\ chatMsgs = <<>>
    /\ commAdmins = {}
    /\ commPadViewers = <<>>
    /\ commJudges = <<>>
    /\ sockPad = [s \in Sockets |-> NoPad]
    /\ commChannelsLoaded = TRUE
    /\ saveScheduled = FALSE
    /\ saveTimer = NullTs
    /\ commFile = NoFile
    /\ commTmp = NoFile
    /\ clientView = [s \in Sockets |-> <<boardState, <<>>>>]
    /\ errorLog = <<>>
    /\ urgentAcked = <<>>
    /\ cmdsLeft = cmds
    /\ ticksLeft = tks

Init == Start(MaxSteps, MaxTicks)

Tick ==
    /\ ticksLeft > 0
    /\ ticksLeft' = ticksLeft - 1
    /\ nowMs' = nowMs + TickMs
    /\ UNCHANGED <<boardVars, commVars, saveVars, diskVars, errorLog, urgentAcked, clientView, cmdsLeft>>

\* socket.on("getState") and io.on("connection"): sanitize, then send to
\* the connection s alone
GetState(s) ==
    /\ CanCmd
    /\ boardState' = sanitizeStateAfterAnyLoad(boardState, nowMs)
    /\ clientView' = [clientView EXCEPT ![s] = <<boardState', audit>>]
    /\ cmdsLeft' = cmdsLeft - 1
    /\ UNCHANGED <<padHistory, audit, nowMs, ticksLeft, commVars, saveVars, diskVars, errorLog, urgentAcked>>

(***************************************************************************)
(* Roster load                                                             *)
(***************************************************************************)
doLoadRoster(prev, roster, t) ==
    [buildStateFromRosterCsv(roster, t) EXCEPT
       !.globalBreakStartAt = prev.globalBreakStartAt,
       !.globalBreakUntilAt = prev.globalBreakUntilAt,
       !.globalBreakReason = prev.globalBreakReason,
       !.globalMessage = prev.globalMessage,
       !.globalMessageUntilAt = prev.globalMessageUntilAt,
       !.eventHeaderLabel = prev.eventHeaderLabel]

\* admin:loadRoster and admin:reloadRoster (the same handler body)
AdminLoadRoster(s, roster) ==
    /\ CanCmd
    /\ RoleOf(s) = "admin"
    /\ IF roster # NoRoster
       THEN Done(emitState(sanitizeStateAfterAnyLoad(
                               doLoadRoster(boardState, roster, nowMs), nowMs), nowMs),
                 padHistory,
                 pushAudit(audit, nowMs, 0, "ROSTER_LOAD"))
       ELSE Done(emitState(boardState, nowMs), padHistory,
                 pushAudit(audit, nowMs, 0, "ROSTER_LOAD_FAIL"))

\* pages/api/reload-roster.ts (POST, admin cookie)
restReloadState(prev, roster, t) ==
    LET built == IF roster # NoRoster THEN buildStateFromRosterCsv(roster, t)
                 ELSE createInitialState(t)
    IN  [built EXCEPT
           !.globalBreakStartAt = prev.globalBreakStartAt,
           !.globalBreakUntilAt = prev.globalBreakUntilAt,
           !.globalBreakReason = prev.globalBreakReason,
           !.globalMessage = prev.globalMessage,
           !.globalMessageUntilAt = prev.globalMessageUntilAt,
           !.eventHeaderLabel = prev.eventHeaderLabel,
           !.eventStatus = IF prev.eventStatus = "LIVE" THEN "LIVE" ELSE "PLANNING",
           !.eventStartAt = prev.eventStartAt,
           !.eventPaused = prev.eventPaused,
           !.eventPausedAt = prev.eventPausedAt,
           !.eventPausedAccumMs = prev.eventPausedAccumMs]

\* G.io.emit sends to every connection; the channels are not ensured
RestReloadRoster(roster) ==
    /\ CanCmd
    /\ boardState' = sanitizeStateAfterAnyLoad(restReloadState(boardState, roster, nowMs), nowMs)
    /\ padHistory' = <<>>
    /\ audit' = pushAudit(audit, nowMs, 0,
                          IF roster # NoRoster THEN "ROSTER_LOAD" ELSE "ROSTER_LOAD_FAIL")
    /\ clientView' = [s \in Sockets |-> <<boardState', audit'>>]
    /\ cmdsLeft' = cmdsLeft - 1
    /\ UNCHANGED <<nowMs, ticksLeft, commVars, saveVars, diskVars, errorLog, urgentAcked>>

(***************************************************************************)
(* Area CRUD and hard reset                                                *)
(***************************************************************************)
\* no role check in the handler
AdminPadAdd(s) ==
    /\ CanCmd
    /\ LET id == boardState.nextPadId
           pad == createPad(id, nowMs)
           st == [boardState EXCEPT
                    !.pads = [i \in DOMAIN boardState.pads \cup {id} |->
                                 IF i = id THEN pad ELSE boardState.pads[i]],
                    !.nextPadId = id + 1,
                    !.updatedAt = nowMs]
       IN  Done(emitState(st, nowMs), padHistory, pushAudit(audit, nowMs, id, "AREA_ADD"))

\* no role check in the handler
AdminPadDelete(s, padId) ==
    /\ CanCmd
    /\ HasPad(padId)
    /\ LET st == [boardState EXCEPT
                    !.pads = [i \in DOMAIN boardState.pads \ {padId} |-> boardState.pads[i]],
                    !.updatedAt = nowMs]
       IN  Done(emitState(st, nowMs),
                deleteStack(padHistory, padId),
                pushAudit(audit, nowMs, padId, "AREA_DELETE"))

AdminClearAllQueues(s) ==
    /\ CanCmd
    /\ RoleOf(s) = "admin"
    /\ LET st == [boardState EXCEPT
                    !.pads = [i \in DOMAIN boardState.pads |-> clearPad(boardState.pads[i], nowMs)],
                    !.updatedAt = nowMs]
       IN  Done(emitState(st, nowMs), padHistory, pushAudit(audit, nowMs, 0, "CLEAR_ALL"))


(***************************************************************************)
(* Participants and the queue manager (admin)                              *)
(***************************************************************************)
Wheres == {"NOW", "ONDECK", "END"}

CanGrow(padId) == Len(boardState.pads[padId].standby) < MaxStandby

AdminTeamAdd(s, padId, where, teamId) ==
    /\ CanCmd
    /\ RoleOf(s) = "admin"
    /\ HasPad(padId)
    /\ CanGrow(padId)
    /\ PadDone(padId,
               insertTeamIntoPad(getPadById(boardState, padId), nowMs, where,
                                 Team(teamId, "MANUAL")),
               "ADMIN_TEAM_ADD")

AdminStandbyMove(s, padId, from, to) ==
    /\ CanCmd
    /\ RoleOf(s) = "admin"
    /\ HasPad(padId)
    /\ Len(getPadById(boardState, padId).standby) > 1
    /\ LET pad == getPadById(boardState, padId)
       IN  PadDone(padId,
                   [pad EXCEPT !.standby = moveItem(pad.standby, from, to),
                               !.updatedAt = nowMs],
                   "STANDBY_MOVE")

\* the pad after admin:queue:setSlot, for a team that is on the pad
setSlotPad(pad, teamId, target, t) ==
    IF target = "NOW" /\ pad.onDeck # NoTeam /\ pad.onDeck.id = teamId
    THEN swapNowOnDeck(pad, t)
    ELSE LET ex == extractTeamFromPad(pad, teamId)
         IN  insertTeamIntoPad(ex.pad, t, target, ex.team)

AdminQueueSetSlot(s, padId, teamId, target) ==
    /\ CanCmd
    /\ RoleOf(s) = "admin"
    /\ HasPad(padId)
    /\ LET pad == getPadById(boardState, padId)
           isSwap == target = "NOW" /\ pad.onDeck # NoTeam /\ pad.onDeck.id = teamId
       IN  /\ ~(target = "ONDECK" /\ pad.onDeck # NoTeam /\ pad.onDeck.id = teamId)
           /\ ~(target = "NOW" /\ pad.now # NoTeam /\ pad.now.id = teamId)
           /\ IF ~isSwap /\ extractTeamFromPad(pad, teamId).team = NoTeam
              THEN \* the snapshot is pushed, then "if (!team) return"
                   DoneNoEmit(boardState, snapshotForUndo(padHistory, padId, boardState), audit)
              ELSE PadDone(padId, setSlotPad(pad, teamId, target, nowMs),
                           IF isSwap THEN "QUEUE_SET_NOW" ELSE "QUEUE_SET_SLOT")

\* the pad after admin:queue:demote, for an occupied source slot
demotePad(pad, from, to, t) ==
    IF from = "NOW"
    THEN advanceWithoutComplete(
             [pad EXCEPT !.standby = IF to = "TOP" THEN Unshift(pad.standby, pad.now)
                                     ELSE Append(pad.standby, pad.now)], t)
    ELSE LET sb == IF to = "TOP" THEN Unshift(pad.standby, pad.onDeck)
                   ELSE Append(pad.standby, pad.onDeck)
         IN  [pad EXCEPT !.onDeck = Head(sb), !.standby = Tail(sb), !.updatedAt = t]

AdminQueueDemote(s, padId, from, to) ==
    /\ CanCmd
    /\ RoleOf(s) = "admin"
    /\ HasPad(padId)
    /\ LET pad == getPadById(boardState, padId)
           moved == IF from = "NOW" THEN pad.now ELSE pad.onDeck
       IN  IF moved = NoTeam
           THEN \* the snapshot is pushed, then "if (!moved) return"
                DoneNoEmit(boardState, snapshotForUndo(padHistory, padId, boardState), audit)
           ELSE PadDone(padId, demotePad(pad, from, to, nowMs),
                        IF from = "NOW" THEN "QUEUE_DEMOTE_NOW" ELSE "QUEUE_DEMOTE_ONDECK")

AdminQueueSwap(s, padId) ==
    /\ CanCmd
    /\ RoleOf(s) = "admin"
    /\ HasPad(padId)
    /\ PadDone(padId, swapNowOnDeck(getPadById(boardState, padId), nowMs), "QUEUE_SWAP")

PadHasId(pad, id) ==
    \/ (pad.now # NoTeam /\ pad.now.id = id)
    \/ (pad.onDeck # NoTeam /\ pad.onDeck.id = id)
    \/ \E i \in 1..Len(pad.standby) : pad.standby[i].id = id

\* applyPatch for a patch { id: newId }: the id changes unless it is taken
patchedId(pad, team, newId) ==
    IF newId # NoId /\ newId # team.id /\ ~PadHasId(pad, newId) THEN newId ELSE team.id

updateTeamPad(pad, teamId, newId, t) ==
    LET p1 == IF pad.now # NoTeam /\ pad.now.id = teamId
              THEN [pad EXCEPT !.now.id = patchedId(pad, pad.now, newId)] ELSE pad
        p2 == IF p1.onDeck # NoTeam /\ p1.onDeck.id = teamId
              THEN [p1 EXCEPT !.onDeck.id = patchedId(p1, p1.onDeck, newId)] ELSE p1
        idx == FirstIndexOfId(p2.standby, teamId)
        p3 == IF idx > 0
              THEN [p2 EXCEPT !.standby[idx].id = patchedId(p2, p2.standby[idx], newId)]
              ELSE p2
    IN  [p3 EXCEPT !.updatedAt = t]

AdminQueueUpdateTeam(s, padId, teamId, newId) ==
    /\ CanCmd
    /\ RoleOf(s) = "admin"
    /\ HasPad(padId)
    /\ PadHasId(getPadById(boardState, padId), teamId)
    /\ PadDone(padId, updateTeamPad(getPadById(boardState, padId), teamId, newId, nowMs),
               "QUEUE_UPDATE_TEAM")

AdminStandbyRemove(s, padId, teamId) ==
    /\ CanCmd
    /\ RoleOf(s) = "admin"
    /\ HasPad(padId)
    /\ FirstIndexOfId(getPadById(boardState, padId).standby, teamId) > 0
    /\ LET pad == getPadById(boardState, padId)
       IN  PadDone(padId,
                   [pad EXCEPT !.standby = FilterOutId(pad.standby, teamId),
                               !.updatedAt = nowMs],
                   "STANDBY_REMOVE")


(***************************************************************************)
(* Judge events                                                            *)
(***************************************************************************)
\* the pad after judge:complete, past the global-break gate
completePad(pad, t) ==
    startReportTimerForNow(
        [clearArrivalForNow(
            AdvanceQueue([pad EXCEPT !.lastCompleteAt = t, !.lastRunEndedAt = t]))
         EXCEPT !.breakStartAt = NullTs],
        t)

\* pad.runStartedAt ?? pad.nowArrivedAt ?? null
runStartOf(pad) == IF pad.runStartedAt # NullTs THEN pad.runStartedAt ELSE pad.nowArrivedAt

completeState(state, padId, t) ==
    LET pad == getPadById(state, padId)
        next == completePad(pad, t)
        s1 == SetPad(state, next)
        s2 == IF runStartOf(pad) # NullTs
              THEN updateCycleStats(s1, next, t - runStartOf(pad), t) ELSE s1
    IN  Touch(s2, t)

JudgeComplete(s, padId) ==
    /\ CanCmd
    /\ RoleOf(s) = "judge"
    /\ HasPad(padId)
    /\ IF globalBreakActive(boardState, nowMs)
       THEN Done(emitState(boardState, nowMs), padHistory,
                 pushAudit(audit, nowMs, padId, "COMPLETE_BLOCKED"))
       ELSE Done(emitState(completeState(boardState, padId, nowMs), nowMs),
                 snapshotForUndo(padHistory, padId, boardState),
                 pushAudit(audit, nowMs, padId, "COMPLETE"))

JudgeHold(s, padId) ==
    /\ CanCmd
    /\ RoleOf(s) = "judge"
    /\ HasPad(padId)
    /\ PadDone(padId,
               setStatus([getPadById(boardState, padId) EXCEPT !.note = "HOLD"], "HOLD", nowMs),
               "HOLD")

\* judge:dns and judge:dq
JudgeMark(s, padId, tag) ==
    /\ CanCmd
    /\ RoleOf(s) = "judge"
    /\ HasPad(padId)
    /\ PadDone(padId, markNowTeam(getPadById(boardState, padId), tag, nowMs), tag)

JudgeUndo(s, padId) ==
    /\ CanCmd
    /\ RoleOf(s) = "judge"
    /\ IF undoAvailable(padHistory, padId)
       THEN Done(emitState(Touch(undoTop(padHistory, padId), nowMs), nowMs),
                 undoForPad(padHistory, padId),
                 pushAudit(audit, nowMs, padId, "UNDO"))
       ELSE Done(emitState(Touch(boardState, nowMs), nowMs), padHistory,
                 pushAudit(audit, nowMs, padId, "UNDO_NOT_AVAILABLE"))

\* no role check in the handler
JudgeArrived(s, padId) ==
    /\ CanCmd
    /\ HasPad(padId)
    /\ PadDone(padId, markArrived(getPadById(boardState, padId), nowMs), "ARRIVED")

JudgeSwap(s, padId) ==
    /\ CanCmd
    /\ RoleOf(s) = "judge"
    /\ HasPad(padId)
    /\ PadDone(padId, swapNowOnDeck(getPadById(boardState, padId), nowMs), "SWAP")

JudgeSkipOnDeck(s, padId) ==
    /\ CanCmd
    /\ RoleOf(s) = "judge"
    /\ HasPad(padId)
    /\ PadDone(padId, skipOnDeck(getPadById(boardState, padId), nowMs), "SKIP_ON_DECK")

\* no role check in the handler
JudgeClear(s, padId) ==
    /\ CanCmd
    /\ HasPad(padId)
    /\ PadDone(padId, clearPad(getPadById(boardState, padId), nowMs), "CLEAR_PAD")

BreakMinutes == {1, 2}

startBreakPad(pad, minutes, t) ==
    LET until == t + Max(1, minutes) * 60 * 1000
    IN  setStatus([pad EXCEPT
                     !.breakUntilAt = until,
                     !.breakReason = "Break",
                     !.note = "BREAK",
                     !.reportByTeamId = IF pad.now # NoTeam THEN pad.now.id ELSE NoId,
                     !.reportByDeadlineAt = IF pad.now # NoTeam THEN until ELSE NullTs],
                  "BREAK", t)

JudgeStartBreak(s, padId, minutes) ==
    /\ CanCmd
    /\ RoleOf(s) = "judge"
    /\ HasPad(padId)
    /\ IF globalBreakActive(boardState, nowMs)
       THEN Done(emitState(boardState, nowMs), padHistory,
                 pushAudit(audit, nowMs, padId, "BREAK_BLOCKED"))
       ELSE PadDone(padId, startBreakPad(getPadById(boardState, padId), minutes, nowMs),
                    "BREAK_START")

\* an end of break that trusts whatever deadline is recorded
endBreakPadAnyDeadline(pad, t) ==
    LET p1 == [pad EXCEPT !.breakUntilAt = NullTs, !.breakReason = "", !.note = ""]
    IN  IF isArrivedForNow(p1)
        THEN setStatus([p1 EXCEPT !.reportByTeamId = NoId, !.reportByDeadlineAt = NullTs],
                       "ON_PAD", t)
        ELSE IF p1.now # NoTeam
        THEN setStatus(p1, "REPORTING", t)
        ELSE setStatus([p1 EXCEPT !.reportByTeamId = NoId, !.reportByDeadlineAt = NullTs],
                       "IDLE", t)

endBreakPad(pad, t) ==
    LET p1 == [pad EXCEPT !.breakUntilAt = NullTs, !.breakReason = "", !.note = ""]
        hasValidDeadline == /\ p1.reportByDeadlineAt # NullTs
                            /\ p1.reportByTeamId # NoId
                            /\ p1.reportByTeamId = p1.now.id
    IN  IF isArrivedForNow(p1)
        THEN setStatus([p1 EXCEPT !.reportByTeamId = NoId, !.reportByDeadlineAt = NullTs],
                       "ON_PAD", t)
        ELSE IF p1.now # NoTeam
        THEN (IF ~hasValidDeadline THEN startReportTimerForNow(p1, t)
              ELSE setStatus(p1, "REPORTING", t))
        ELSE setStatus([p1 EXCEPT !.reportByTeamId = NoId, !.reportByDeadlineAt = NullTs],
                       "IDLE", t)

JudgeEndBreak(s, padId) ==
    /\ CanCmd
    /\ RoleOf(s) = "judge"
    /\ HasPad(padId)
    /\ PadDone(padId, endBreakPad(getPadById(boardState, padId), nowMs), "BREAK_END")

JudgeAddTeam(s, padId, where, teamId) ==
    /\ CanCmd
    /\ RoleOf(s) = "judge"
    /\ HasPad(padId)
    /\ CanGrow(padId)
    /\ PadDone(padId,
               insertTeamIntoPad(getPadById(boardState, padId), nowMs, where,
                                 Team(teamId, "MANUAL")),
               "MANUAL_ADD")

JudgeSetPadLabel(s, padId, label) ==
    /\ CanCmd
    /\ RoleOf(s) = "judge"
    /\ HasPad(padId)
    /\ PadDone(padId,
               [getPadById(boardState, padId) EXCEPT !.label = label, !.updatedAt = nowMs],
               "SET_LABEL")

(***************************************************************************)
(* Global message / break (admin)                                          *)
(***************************************************************************)
GlobalDone(state, action) ==
    Done(emitState(Touch(state, nowMs), nowMs), padHistory,
         pushAudit(audit, nowMs, 0, action))

\* no role check in the handler
AdminSetGlobalMessage(s, text, minutes) ==
    /\ CanCmd
    /\ GlobalDone([boardState EXCEPT
                     !.globalMessage = text,
                     !.globalMessageUntilAt =
                         IF text # "" /\ minutes # 0
                         THEN nowMs + Max(1, minutes) * 60 * 1000 ELSE NullTs],
                  "GLOBAL_MESSAGE_SET")

AdminClearGlobalMessage(s) ==
    /\ CanCmd
    /\ RoleOf(s) = "admin"
    /\ GlobalDone([boardState EXCEPT !.globalMessage = "", !.globalMessageUntilAt = NullTs],
                  "GLOBAL_MESSAGE_CLEAR")

\* no role check in the handler
AdminSetEventHeaderLabel(s, text) ==
    /\ CanCmd
    /\ GlobalDone([boardState EXCEPT
                     !.eventHeaderLabel = IF text # "" THEN text ELSE "COMPETITION MATRIX"],
                  "EVENT_HEADER_SET")

AdminStartGlobalBreak(s, minutes) ==
    /\ CanCmd
    /\ RoleOf(s) = "admin"
    /\ GlobalDone([boardState EXCEPT
                     !.globalBreakStartAt = nowMs,
                     !.globalBreakUntilAt = nowMs + Max(1, minutes) * 60 * 1000,
                     !.globalBreakReason = "Break"],
                  "GLOBAL_BREAK_START")

\* no role check in the handler
AdminScheduleGlobalBreak(s, startAt, minutes) ==
    /\ CanCmd
    /\ startAt > 0
    /\ GlobalDone([boardState EXCEPT
                     !.globalBreakStartAt = startAt,
                     !.globalBreakUntilAt = startAt + Max(1, minutes) * 60 * 1000,
                     !.globalBreakReason = "Break"],
                  "GLOBAL_BREAK_SCHEDULE")

AdminEndGlobalBreak(s) ==
    /\ CanCmd
    /\ RoleOf(s) = "admin"
    /\ GlobalDone([boardState EXCEPT
                     !.globalBreakStartAt = NullTs,
                     !.globalBreakUntilAt = NullTs,
                     !.globalBreakReason = ""],
                  "GLOBAL_BREAK_END")

(***************************************************************************)
(* Event lifecycle.  The handlers admin:event:startNow, setPlanning,       *)
(* pause and resume are not part of the server source at hand; they are    *)
(* modelled from EVENT_PAUSE.md and the Event Start Gate document.         *)
(***************************************************************************)
AdminEventStartNow(s) ==
    /\ CanCmd
    /\ RoleOf(s) = "admin"
    /\ boardState.eventStatus # "LIVE"
    /\ GlobalDone([boardState EXCEPT !.eventStatus = "LIVE", !.eventStartAt = nowMs],
                  "EVENT_START")

AdminEventSetPlanning(s) ==
    /\ CanCmd
    /\ RoleOf(s) = "admin"
    /\ boardState.eventStatus = "LIVE"
    /\ GlobalDone([boardState EXCEPT
                     !.eventStatus = "PLANNING",
                     !.pads = [i \in DOMAIN boardState.pads |->
                                  [boardState.pads[i] EXCEPT !.reportByDeadlineAt = NullTs,
                                                             !.reportByTeamId = NoId]]],
                  "EVENT_SET_PLANNING")

AdminEventPause(s) ==
    /\ CanCmd
    /\ RoleOf(s) = "admin"
    /\ boardState.eventStatus = "LIVE"
    /\ ~boardState.eventPaused
    /\ GlobalDone([boardState EXCEPT !.eventPaused = TRUE, !.eventPausedAt = nowMs],
                  "EVENT_PAUSE")

AdminEventResume(s) ==
    /\ CanCmd
    /\ RoleOf(s) = "admin"
    /\ boardState.eventStatus = "LIVE"
    /\ boardState.eventPaused
    /\ GlobalDone([boardState EXCEPT
                     !.eventPaused = FALSE,
                     !.eventPausedAt = NullTs,
                     !.eventPausedAccumMs =
                         boardState.eventPausedAccumMs + (nowMs - boardState.eventPausedAt)],
                  "EVENT_RESUME")

(***************************************************************************)
(* lib/commPersistence.ts.  A parsed JSON value is a tagged tuple:         *)
(* <<"num", n>> an integer, <<"frac", n>> a non-integer number whose floor *)
(* is n, <<"inf", s>> plus or minus Infinity, <<"nan">>, <<"str", s>>,     *)
(* <<"bool", b>>, <<"null">>, <<"undef">> a missing field, <<"uid", n>> the *)
(* string that uid() returned for the n-th message.  A file is a record:   *)
(* whether it exists, whether its text is complete JSON, when it was last  *)
(* written, and the entries of its "channels" object in Object.entries     *)
(* order.                                                                  *)
(***************************************************************************)
Num(n) == <<"num", n>>
Str(s) == <<"str", s>>
Bool(b) == <<"bool", b>>
Uid(n) == <<"uid", n>>
JsNull == <<"null">>
JsUndef == <<"undef">>
JsNaN == <<"nan">>
JsInf == <<"inf", 1>>

\* Number(s) for the strings of the model
StringToNumber(s) ==
    CASE s = "" -> Num(0)
      [] s = "0" -> Num(0)
      [] s = "1" -> Num(1)
      [] s = "01" -> Num(1)
      [] s = "2" -> Num(2)
      [] s = "3" -> Num(3)
      [] s = "4" -> Num(4)
      [] s = "5" -> Num(5)
      [] s = "6" -> Num(6)
      [] s = "7" -> Num(7)
      [] s = "8" -> Num(8)
      [] s = "9" -> Num(9)
      [] s = "-1" -> Num(-1)
      [] s = "1.9" -> <<"frac", 1>>
      [] s = "Infinity" -> JsInf
      [] OTHER -> JsNaN

\* Number(v)
ToNumber(v) ==
    CASE v[1] \in {"num", "frac", "inf", "nan"} -> v
      [] v[1] = "str" -> StringToNumber(v[2])
      [] v[1] = "bool" -> IF v[2] THEN Num(1) ELSE Num(0)
      [] v[1] = "null" -> Num(0)
      [] OTHER -> JsNaN

\* Number.isFinite(v), Number.isInteger(v) for a number v
IsFinite(v) == v[1] \in {"num", "frac"}
IsInteger(v) == v[1] = "num"

\* String(k) of a pad key
KeyString(k) ==
    CASE k = 0 -> "0"
      [] k = 1 -> "1"
      [] k = 2 -> "2"
      [] k = 3 -> "3"
      [] k = 4 -> "4"
      [] k = 5 -> "5"
      [] k = 6 -> "6"
      [] k = 7 -> "7"
      [] k = 8 -> "8"
      [] k = 9 -> "9"
      [] k = -1 -> "-1"
      [] OTHER -> "x"

\* a faulty parse that coerces like Boolean(v)
parseUrgentTruthy(m) ==
    CASE m.urgent[1] = "bool" -> m.urgent[2]
      [] m.urgent[1] = "str" -> m.urgent[2] # ""
      [] m.urgent[1] = "num" -> m.urgent[2] # 0
      [] OTHER -> FALSE

parseUrgent(m) == m.urgent = Bool(TRUE) \/ m.urgent = Str("true")

\* null is NoPad
parsePadKey(k) ==
    LET n == StringToNumber(k)
    IN  IF ~IsInteger(n) THEN NoPad ELSE IF n[2] < 1 THEN NoPad ELSE n[2]

\* the first filter of loadCommState: an object whose id and text are strings
isMessageObject(m) == m.id[1] = "uid" /\ m.text[1] = "str"

\* the map of loadCommState
loadMessage(m) ==
    LET ackedAt == IF m.ackedAt[1] \in {"null", "undef"} THEN JsUndef
                   ELSE ToNumber(m.ackedAt)
    IN  [id |-> m.id[2],
         ts |-> ToNumber(m.ts),
         from |-> IF m.from = Str("JUDGE") THEN "JUDGE" ELSE "ADMIN",
         urgent |-> parseUrgent(m),
         ackedAt |-> IF ackedAt[1] # "undef" /\ IsFinite(ackedAt) THEN ackedAt ELSE JsUndef]

RECURSIVE MapLoad(_)
MapLoad(msgs) ==
    IF msgs = <<>> THEN <<>> ELSE <<loadMessage(Head(msgs))>> \o MapLoad(Tail(msgs))

tsIsFinite(m) == IsFinite(m.ts)

loadMessages(msgs) == SelectSeq(MapLoad(SelectSeq(msgs, isMessageObject)), tsIsFinite)

RECURSIVE loadEntries(_, _)
loadEntries(entries, result) ==
    IF entries = <<>> THEN result
    ELSE LET padId == parsePadKey(Head(entries).key)
             msgs == loadMessages(Head(entries).msgs)
         IN  loadEntries(Tail(entries),
                 IF padId = NoPad THEN result
                 ELSE [k \in DOMAIN result \cup {padId} |->
                          IF k = padId THEN msgs ELSE result[k]])

\* a missing file and a text that JSON.parse rejects give {}
loadCommState(file) ==
    IF ~file.exists \/ ~file.complete THEN <<>>
    ELSE loadEntries(file.channels, <<>>)

\* the keys of an object in Object.entries order: the array indices
\* ascending, then the other keys (one at most in this model)
RECURSIVE keyOrder(_)
keyOrder(keys) ==
    IF keys = {} THEN <<>>
    ELSE LET idx == {k \in keys : k >= 0}
             k == IF idx # {} THEN CHOOSE x \in idx : \A y \in idx : x <= y
                  ELSE CHOOSE x \in keys : TRUE
         IN  <<k>> \o keyOrder(keys \ {k})

\* JSON.stringify of a ChatMessage: undefined fields are left out
stringifyMessage(msg) ==
    [id |-> Uid(msg.id),
     ts |-> Num(msg.ts),
     from |-> Str(msg.from),
     text |-> Str("text"),
     urgent |-> IF msg.urgent THEN Bool(TRUE) ELSE JsUndef,
     ackedAt |-> IF msg.ackedAt = NullTs THEN JsUndef ELSE Num(msg.ackedAt)]

\* the "channels" object that the save callback writes
toWrite(channels, heap) ==
    LET order == keyOrder(DOMAIN channels)
    IN  [i \in 1..Len(order) |->
            [key |-> KeyString(order[i]),
             msgs |-> [j \in 1..Len(channels[order[i]]) |->
                          stringifyMessage(heap[channels[order[i]][j]])]]]

writtenFile(channels, heap, t) ==
    [exists |-> TRUE, complete |-> TRUE, mtime |-> t, channels |-> toWrite(channels, heap)]

\* what writeFileSync leaves when it is cut short
truncatedFile(t) == [exists |-> TRUE, complete |-> FALSE, mtime |-> t, channels |-> <<>>]

\* a reset-on-activity debounce: every trigger re-arms the timer
scheduleCommSaveDebounce(scheduled, timer, t) == <<TRUE, t + DEBOUNCE_MS>>

\* scheduleCommSave up to setTimeout: <<saveScheduled, saveTimer>> afterwards
scheduleCommSave(scheduled, timer, t) ==
    IF scheduled THEN <<scheduled, timer>> ELSE <<TRUE, t + DEBOUNCE_MS>>

\* a save that writes the final path directly
saveStepsInPlace(step, file, tmp, content, t) ==
    CASE step = "start" -> <<file, tmp>>
      [] step = "writing" -> <<truncatedFile(t), tmp>>
      [] OTHER -> <<content, tmp>>

\* the files <<final, tmp>> when the save callback has got as far as step:
\* "start" (nothing written yet), "writing" (inside writeFileSync),
\* "written" (before renameSync), "renamed"
saveSteps(step, file, tmp, content, t) ==
    CASE step = "start" -> <<file, tmp>>
      [] step = "writing" -> <<file, truncatedFile(t)>>
      [] step = "written" -> <<file, content>>
      [] OTHER -> <<content, NoFile>>

(***************************************************************************)
(* Messaging.  A ChatMessage object is an entry of chatMsgs under its id   *)
(* (uid() gives every message a fresh id); a channel is the sequence of    *)
(* the ids of the objects it holds, so that one object pushed to several   *)
(* channels (admin:comm:broadcast) is one entry that all of them share.    *)
(***************************************************************************)
RECURSIVE ConcatChannels(_, _)
ConcatChannels(channels, keys) ==
    IF keys = {} THEN <<>>
    ELSE LET k == CHOOSE x \in keys : \A y \in keys : x <= y
         IN  channels[k] \o ConcatChannels(channels, keys \ {k})

\* channels[padId] ?? []
channelOf(channels, padId) == IF padId \in DOMAIN channels THEN channels[padId] ELSE <<>>

\* a faulty scope that searches the channels of all pads
ackScopeAnyPad(channels, padId) == ConcatChannels(channels, DOMAIN channels)

\* the messages judge:comm:ack searches: those of the connection's pad
ackScope(channels, padId) == channelOf(channels, padId)

\* msgs.find((m) => m.id === messageId): the first object of the channel
\* with that id
findMessage(ids, heap, messageId) ==
    LET hits == {i \in 1..Len(ids) : heap[ids[i]].id = messageId}
    IN  IF hits = {} THEN NoMsg
        ELSE ids[CHOOSE i \in hits : \A j \in hits : i <= j]

\* a faulty test that lets an acknowledged message be acknowledged again
ackableAgain(msg) == msg.urgent

\* !(!msg.urgent || msg.ackedAt != null)
ackable(msg) == msg.urgent /\ msg.ackedAt = NullTs

\* a faulty search that takes the latest urgent message, acknowledged or not
lastUrgent(ids, heap) ==
    LET open == {i \in 1..Len(ids) : heap[ids[i]].urgent}
    IN  IF open = {} THEN NoMsg
        ELSE ids[CHOOSE i \in open : \A j \in open : j <= i]

\* a faulty search that takes the oldest open urgent message
firstUnackedUrgent(ids, heap) ==
    LET open == {i \in 1..Len(ids) : heap[ids[i]].urgent /\ heap[ids[i]].ackedAt = NullTs}
    IN  IF open = {} THEN NoMsg
        ELSE ids[CHOOSE i \in open : \A j \in open : i <= j]

\* [...msgs].reverse().find((m) => m.urgent && m.ackedAt == null)
lastUnackedUrgent(ids, heap) ==
    LET open == {i \in 1..Len(ids) : heap[ids[i]].urgent /\ heap[ids[i]].ackedAt = NullTs}
    IN  IF open = {} THEN NoMsg
        ELSE ids[CHOOSE i \in open : \A j \in open : j <= i]

\* a message with a fresh uid(); an undefined urgent is FALSE
newMessage(id, from, urgent, t) ==
    [id |-> id, ts |-> t, from |-> from, urgent |-> urgent, ackedAt |-> NullTs]

\* cur.push(msg) with the cap, on channels[padId] ?? []
pushChat(channels, padId, id) ==
    [k \in DOMAIN channels \cup {padId} |->
        IF k = padId
        THEN KeepLast(Append(channelOf(channels, padId), id), MAX_CHAT_PER_PAD)
        ELSE channels[k]]

appendChatToPad(channels, state, padId, id) ==
    pushChat(ensureChannelsForPads(channels, state), padId, id)

RECURSIVE pushChatAll(_, _, _)
pushChatAll(channels, padIds, id) ==
    IF padIds = {} THEN channels
    ELSE LET k == CHOOSE x \in padIds : TRUE
         IN  pushChatAll(pushChat(channels, k, id), padIds \ {k}, id)

\* the viewer map without the connection s under pad prev; an emptied set is deleted
\* a join that leaves the connection in the set of its previous pad
leaveViewersKeep(viewers, prev, s) ==
    viewers

leaveViewers(viewers, prev, s) ==
    IF prev \in DOMAIN viewers
    THEN [k \in {x \in DOMAIN viewers : x # prev \/ viewers[prev] \ {s} # {}} |->
             IF k = prev THEN viewers[prev] \ {s} ELSE viewers[k]]
    ELSE viewers

joinViewers(viewers, padId, s) ==
    [k \in DOMAIN viewers \cup {padId} |->
        IF k = padId THEN (IF padId \in DOMAIN viewers THEN viewers[padId] ELSE {}) \cup {s}
        ELSE viewers[k]]

CanSend == Len(chatMsgs) < MaxMsgs

CommDone(channels, heap, admins, viewers, judges, bound) ==
    /\ commChannels' = channels
    /\ chatMsgs' = heap
    /\ commAdmins' = admins
    /\ commPadViewers' = viewers
    /\ commJudges' = judges
    /\ sockPad' = bound
    /\ cmdsLeft' = cmdsLeft - 1
    /\ UNCHANGED <<boardVars, nowMs, ticksLeft, saveVars, diskVars, errorLog, urgentAcked, clientView>>

\* for (const sid of G.commAdmins) io.to(sid).emit("comm:urgentAcked",
\* { padId, messageId })
RECURSIVE notifyUrgentAcked(_, _, _, _)
notifyUrgentAcked(notices, admins, padId, messageId) ==
    IF admins = {} THEN notices
    ELSE LET a == CHOOSE x \in admins : TRUE
         IN  notifyUrgentAcked(
                 Append(notices, [to |-> a, padId |-> padId, messageId |-> messageId]),
                 admins \ {a}, padId, messageId)

\* a command that changed a channel or a message: scheduleCommPersist; notices
\* are the "comm:urgentAcked" events emitted so far and by the command
ChatDoneNotify(channels, heap, notices) ==
    /\ commChannels' = channels
    /\ chatMsgs' = heap
    /\ urgentAcked' = notices
    /\ saveScheduled' = scheduleCommSave(saveScheduled, saveTimer, nowMs)[1]
    /\ saveTimer' = scheduleCommSave(saveScheduled, saveTimer, nowMs)[2]
    /\ cmdsLeft' = cmdsLeft - 1
    /\ UNCHANGED <<boardVars, nowMs, ticksLeft, diskVars, errorLog, clientView>>
    /\ UNCHANGED <<commAdmins, commPadViewers, commJudges, sockPad>>

\* a command that changed a channel and acknowledged nothing
ChatDone(channels, heap) == ChatDoneNotify(channels, heap, urgentAcked)

\* a messaging command that returned early
ChatRejected == CommDone(commChannels, chatMsgs, commAdmins, commPadViewers, commJudges, sockPad)

CommRegister(s) ==
    /\ CanCmd
    /\ RoleOf(s) = "admin"
    /\ CommDone(commChannels, chatMsgs, commAdmins \cup {s}, commPadViewers, commJudges,
                sockPad)

CommJoinPad(s, padId) ==
    /\ CanCmd
    /\ RoleOf(s) = "judge"
    /\ HasPad(padId)
    /\ CommDone(ensureChannelsForPads(commChannels, boardState),
                chatMsgs,
                commAdmins,
                joinViewers(IF sockPad[s] # NoPad
                            THEN leaveViewers(commPadViewers, sockPad[s], s)
                            ELSE commPadViewers,
                            padId, s),
                [k \in DOMAIN commJudges \cup {s} |-> IF k = s THEN padId ELSE commJudges[k]],
                [sockPad EXCEPT ![s] = padId])

\* the presence record takes any finite pad id of the payload
CommPresence(s, padId) ==
    /\ CanCmd
    /\ RoleOf(s) = "judge"
    /\ s \in DOMAIN commJudges
    /\ CommDone(commChannels, chatMsgs, commAdmins, commPadViewers,
                [commJudges EXCEPT ![s] = padId], sockPad)

AdminCommSend(s, toPadId, urgent) ==
    /\ CanCmd
    /\ RoleOf(s) = "admin"
    /\ HasPad(toPadId)
    /\ CanSend
    /\ LET id == Len(chatMsgs) + 1
       IN  ChatDone(appendChatToPad(commChannels, boardState, toPadId, id),
                    Append(chatMsgs, newMessage(id, "ADMIN", urgent, nowMs)))

\* a faulty reply that takes the urgent flag of the payload
judgeMessageFromPayload(payloadUrgent, id, t) == newMessage(id, "JUDGE", payloadUrgent, t)

\* { id: uid(), ts: Date.now(), from: "JUDGE", text }: the payload's urgent
\* field is not read
judgeMessage(payloadUrgent, id, t) == newMessage(id, "JUDGE", FALSE, t)

\* a reply acknowledges the latest unacknowledged urgent message of the pad;
\* the payload may carry any urgent flag
JudgeCommSend(s) ==
    /\ CanCmd
    /\ RoleOf(s) = "judge"
    /\ sockPad[s] # NoPad
    /\ HasPad(sockPad[s])
    /\ CanSend
    /\ \E payloadUrgent \in BOOLEAN :
         LET padId == sockPad[s]
             last == lastUnackedUrgent(channelOf(commChannels, padId), chatMsgs)
             acked == IF last # NoMsg THEN [chatMsgs EXCEPT ![last].ackedAt = nowMs]
                      ELSE chatMsgs
             id == Len(chatMsgs) + 1
         IN  ChatDoneNotify(appendChatToPad(commChannels, boardState, padId, id),
                            Append(acked, judgeMessage(payloadUrgent, id, nowMs)),
                            IF last # NoMsg
                            THEN notifyUrgentAcked(urgentAcked, commAdmins, padId,
                                                   chatMsgs[last].id)
                            ELSE urgentAcked)

\* the handler returns without effect unless the connection is bound to an
\* existing pad whose channel holds the message, urgent and unacknowledged
JudgeCommAck(s, messageId) ==
    /\ CanCmd
    /\ RoleOf(s) = "judge"
    /\ LET padId == sockPad[s]
           found == IF padId # NoPad /\ HasPad(padId)
                    THEN findMessage(ackScope(commChannels, padId), chatMsgs, messageId)
                    ELSE NoMsg
       IN  IF found # NoMsg /\ ackable(chatMsgs[found])
           THEN ChatDoneNotify(commChannels, [chatMsgs EXCEPT ![found].ackedAt = nowMs],
                               notifyUrgentAcked(urgentAcked, commAdmins, padId, messageId))
           ELSE ChatRejected

\* one message object is pushed to every target channel
AdminCommBroadcast(s, target, padId) ==
    /\ CanCmd
    /\ RoleOf(s) = "admin"
    /\ CanSend
    /\ LET id == Len(chatMsgs) + 1
           padIds == IF target = "PAD" /\ padId # NoPad THEN {padId}
                     ELSE PadIdsOf(boardState)
       IN  ChatDone(pushChatAll(ensureChannelsForPads(commChannels, boardState), padIds, id),
                    Append(chatMsgs, newMessage(id, "ADMIN", FALSE, nowMs)))

\* socket.on("disconnect"); a later connection of the same client starts with
\* empty socket.data
SocketDisconnect(s) ==
    /\ CanCmd
    /\ CommDone(commChannels, chatMsgs,
                commAdmins \ {s},
                IF sockPad[s] # NoPad THEN leaveViewers(commPadViewers, sockPad[s], s)
                ELSE commPadViewers,
                [k \in DOMAIN commJudges \ {s} |-> commJudges[k]],
                [sockPad EXCEPT ![s] = NoPad])


(***************************************************************************)
(* The durable chat file: the save timer, failures, a crash and a restart  *)
(***************************************************************************)
SaveSteps == {"start", "writing", "written"}

SaveDue == commChannelsLoaded /\ saveTimer # NullTs /\ nowMs >= saveTimer

\* the timer callback of scheduleCommSave, with no error
SaveTimerFires ==
    /\ SaveDue
    /\ saveScheduled' = FALSE
    /\ saveTimer' = NullTs
    /\ LET files == saveSteps("renamed", commFile, commTmp,
                              writtenFile(commChannels, chatMsgs, nowMs), nowMs)
       IN  commFile' = files[1] /\ commTmp' = files[2]
    /\ UNCHANGED <<boardVars, commVars, commChannelsLoaded, clientView, errorLog, urgentAcked, nowMs, cmdsLeft,
                   ticksLeft>>

\* a timer callback whose flag is cleared only after a successful write
SaveTimerFailsStuck(step) ==
    /\ SaveDue
    /\ cmdsLeft > 0
    /\ saveScheduled' = TRUE
    /\ saveTimer' = NullTs
    /\ LET files == saveSteps(step, commFile, commTmp,
                              writtenFile(commChannels, chatMsgs, nowMs), nowMs)
       IN  commFile' = files[1] /\ commTmp' = files[2]
    /\ cmdsLeft' = cmdsLeft - 1
    /\ errorLog' = Append(errorLog, [ts |-> nowMs, from |-> "comm"])
    /\ UNCHANGED <<boardVars, commVars, commChannelsLoaded, clientView, urgentAcked, nowMs,
                   ticksLeft>>

\* the timer callback when mkdirSync, writeFileSync or renameSync throws at
\* step: the catch logs the error
SaveTimerFails(step) ==
    /\ SaveDue
    /\ cmdsLeft > 0
    /\ saveScheduled' = FALSE
    /\ saveTimer' = NullTs
    /\ LET files == saveSteps(step, commFile, commTmp,
                              writtenFile(commChannels, chatMsgs, nowMs), nowMs)
       IN  commFile' = files[1] /\ commTmp' = files[2]
    /\ cmdsLeft' = cmdsLeft - 1
    /\ errorLog' = Append(errorLog, [ts |-> nowMs, from |-> "comm"])
    /\ UNCHANGED <<boardVars, commVars, commChannelsLoaded, clientView, urgentAcked, nowMs,
                   ticksLeft>>

\* the process dies: outside a save ("idle") or inside the timer callback at
\* step.  Its memory and its timer are gone.
ProcessCrash(step) ==
    /\ commChannelsLoaded
    /\ cmdsLeft > 0
    /\ step # "idle" => SaveDue
    /\ commChannelsLoaded' = FALSE
    /\ saveScheduled' = FALSE
    /\ saveTimer' = NullTs
    /\ LET files == IF step = "idle" THEN <<commFile, commTmp>>
                    ELSE saveSteps(step, commFile, commTmp,
                                   writtenFile(commChannels, chatMsgs, nowMs), nowMs)
       IN  commFile' = files[1] /\ commTmp' = files[2]
    /\ cmdsLeft' = cmdsLeft - 1
    /\ UNCHANGED <<boardVars, commVars, clientView, errorLog, urgentAcked, nowMs, ticksLeft>>

heapMessage(m) ==
    [id |-> m.id, ts |-> m.ts[2], from |-> m.from, urgent |-> m.urgent,
     ackedAt |-> IF m.ackedAt[1] = "undef" THEN NullTs ELSE m.ackedAt[2]]

\* loadCommChannelsIfNeeded: <<G.commChannels, the message objects>>
RECURSIVE loadCommChannels(_, _, _, _)
loadCommChannels(loaded, keys, channels, heap) ==
    IF keys = {} THEN <<channels, heap>>
    ELSE LET k == CHOOSE x \in keys : \A y \in keys : x <= y
             n == Len(loaded[k])
             keep == k >= 1
         IN  loadCommChannels(loaded, keys \ {k},
                 IF keep
                 THEN [c \in DOMAIN channels \cup {k} |->
                          IF c = k THEN [j \in 1..n |-> Len(heap) + j] ELSE channels[c]]
                 ELSE channels,
                 IF keep THEN heap \o [j \in 1..n |-> heapMessage(loaded[k][j])]
                 ELSE heap)

\* the first request to a new process: the io server is created, the chat
\* file is loaded, the first connection creates the board
ServerStart ==
    /\ ~commChannelsLoaded
    /\ LET loaded == loadCommState(commFile)
           mem == loadCommChannels(loaded, DOMAIN loaded, <<>>, <<>>)
       IN  /\ commChannels' = mem[1]
           /\ chatMsgs' = mem[2]
    /\ commChannelsLoaded' = TRUE
    /\ boardState' = sanitizeStateAfterAnyLoad(createInitialState(nowMs), nowMs)
    /\ padHistory' = <<>>
    /\ audit' = <<>>
    /\ clientView' = [s \in Sockets |-> <<boardState', <<>>>>]
    /\ commAdmins' = {}
    /\ commPadViewers' = <<>>
    /\ commJudges' = <<>>
    /\ sockPad' = [s \in Sockets |-> NoPad]
    /\ UNCHANGED <<saveVars, commFile, commTmp, errorLog, urgentAcked, nowMs, cmdsLeft, ticksLeft>>

\* a dispatch without try/catch: an exception of the handler reaches the
\* event loop uncaught
socketOnBare(threw) == IF threw THEN "uncaught" ELSE "returned"

\* the socket.on wrapper around every command handler
socketOnWrapper(threw) == IF threw THEN "caught" ELSE "returned"

ThrowPoints == {"intake", "written"}

\* a command of the connection s whose handler throws: at its intake, before
\* it has written anything, or (admin:pad:add as the example) after it has
\* written the board and before pushAudit and emitState.  A caught exception
\* is logged; an uncaught one ends the process.
HandlerThrows(s, at) ==
    /\ CanCmd
    /\ boardState' =
           IF at = "written"
           THEN [boardState EXCEPT
                    !.pads = [i \in DOMAIN boardState.pads \cup {boardState.nextPadId} |->
                                 IF i = boardState.nextPadId
                                 THEN createPad(boardState.nextPadId, nowMs)
                                 ELSE boardState.pads[i]],
                    !.nextPadId = boardState.nextPadId + 1,
                    !.updatedAt = nowMs]
           ELSE boardState
    /\ IF socketOnWrapper(TRUE) = "caught"
       THEN /\ errorLog' = Append(errorLog, [ts |-> nowMs, from |-> s])
            /\ UNCHANGED <<commChannelsLoaded, saveVars>>
       ELSE /\ commChannelsLoaded' = FALSE
            /\ saveScheduled' = FALSE
            /\ saveTimer' = NullTs
            /\ UNCHANGED errorLog
    /\ cmdsLeft' = cmdsLeft - 1
    /\ UNCHANGED <<padHistory, audit, commVars, commFile, commTmp, clientView, urgentAcked,
                   nowMs, ticksLeft>>

\* the clock in steps shorter than the throttle window
TickShort ==
    /\ ticksLeft > 0
    /\ ticksLeft' = ticksLeft - 1
    /\ nowMs' = nowMs + ShortTickMs
    /\ UNCHANGED <<boardVars, commVars, saveVars, diskVars, errorLog, urgentAcked, clientView, cmdsLeft>>


(***************************************************************************)
(* The board specification                                                 *)
(***************************************************************************)
Labels == {<<"Custom", 1>>}

Next ==
    \/ Tick
    \/ \E s \in Sockets : GetState(s)
    \/ \E s \in Sockets, r \in Rosters \cup {NoRoster} : AdminLoadRoster(s, r)
    \/ \E r \in Rosters \cup {NoRoster} : RestReloadRoster(r)
    \/ \E s \in Sockets : AdminPadAdd(s)
    \/ \E s \in Sockets, p \in AllPadIds : AdminPadDelete(s, p)
    \/ \E s \in Sockets : AdminClearAllQueues(s)
    \/ \E s \in Sockets, p \in AllPadIds, w \in Wheres, id \in TeamIds : AdminTeamAdd(s, p, w, id)
    \/ \E s \in Sockets, p \in AllPadIds, f \in 0..MaxStandby, t \in 0..MaxStandby :
           AdminStandbyMove(s, p, f, t)
    \/ \E s \in Sockets, p \in AllPadIds, id \in TeamIds, tg \in {"NOW", "ONDECK"} :
           AdminQueueSetSlot(s, p, id, tg)
    \/ \E s \in Sockets, p \in AllPadIds, f \in {"NOW", "ONDECK"}, t \in {"TOP", "END"} :
           AdminQueueDemote(s, p, f, t)
    \/ \E s \in Sockets, p \in AllPadIds : AdminQueueSwap(s, p)
    \/ \E s \in Sockets, p \in AllPadIds, id \in TeamIds, nid \in TeamIds :
           AdminQueueUpdateTeam(s, p, id, nid)
    \/ \E s \in Sockets, p \in AllPadIds, id \in TeamIds : AdminStandbyRemove(s, p, id)
    \/ \E s \in Sockets, p \in AllPadIds : JudgeComplete(s, p)
    \/ \E s \in Sockets, p \in AllPadIds : JudgeHold(s, p)
    \/ \E s \in Sockets, p \in AllPadIds, tag \in {"DNS", "DQ"} : JudgeMark(s, p, tag)
    \/ \E s \in Sockets, p \in AllPadIds : JudgeUndo(s, p)
    \/ \E s \in Sockets, p \in AllPadIds : JudgeArrived(s, p)
    \/ \E s \in Sockets, p \in AllPadIds : JudgeSwap(s, p)
    \/ \E s \in Sockets, p \in AllPadIds : JudgeSkipOnDeck(s, p)
    \/ \E s \in Sockets, p \in AllPadIds : JudgeClear(s, p)
    \/ \E s \in Sockets, p \in AllPadIds, m \in BreakMinutes : JudgeStartBreak(s, p, m)
    \/ \E s \in Sockets, p \in AllPadIds : JudgeEndBreak(s, p)
    \/ \E s \in Sockets, p \in AllPadIds, w \in Wheres, id \in TeamIds : JudgeAddTeam(s, p, w, id)
    \/ \E s \in Sockets, p \in AllPadIds, l \in Labels : JudgeSetPadLabel(s, p, l)
    \/ \E s \in Sockets, m \in {0, 1} : AdminSetGlobalMessage(s, "msg", m)
    \/ \E s \in Sockets : AdminClearGlobalMessage(s)
    \/ \E s \in Sockets : AdminSetEventHeaderLabel(s, "HEADER")
    \/ \E s \in Sockets, m \in BreakMinutes : AdminStartGlobalBreak(s, m)
    \/ \E s \in Sockets, m \in BreakMinutes : AdminScheduleGlobalBreak(s, nowMs + TickMs, m)
    \/ \E s \in Sockets : AdminEndGlobalBreak(s)
    \/ \E s \in Sockets : AdminEventStartNow(s)
    \/ \E s \in Sockets : AdminEventSetPlanning(s)
    \/ \E s \in Sockets : AdminEventPause(s)
    \/ \E s \in Sockets : AdminEventResume(s)

Spec == Init /\ [][Next]_vars

(***************************************************************************)
(* Properties of the board                                                 *)
(***************************************************************************)
LastAudit == audit[Len(audit)]

IdsOfPad(pad) ==
    (IF pad.now # NoTeam THEN <<pad.now.id>> ELSE <<>>)
    \o (IF pad.onDeck # NoTeam THEN <<pad.onDeck.id>> ELSE <<>>)
    \o [i \in 1..Len(pad.standby) |-> pad.standby[i].id]

NoDuplicate(seq) == \A i, j \in 1..Len(seq) : seq[i] = seq[j] => i = j

\* C1: when no global break is active, judge:complete on a pad leaves
\* now = the prior onDeck (or empty), onDeck = the prior head of standby (or
\* empty), and standby = the prior standby without its head.
C1_CompleteAdvances ==
    [][\A p \in AllPadIds :
          (JudgeComplete("judge1", p) /\ ~globalBreakActive(boardState, nowMs)) =>
              LET old == boardState.pads[p]
                  new == boardState'.pads[p]
              IN  /\ new.now = old.onDeck
                  /\ new.onDeck = (IF old.standby = <<>> THEN NoTeam ELSE Head(old.standby))
                  /\ new.standby = (IF old.standby = <<>> THEN <<>> ELSE Tail(old.standby))]_vars

\* a Complete has just moved B to NOW and C to ON DECK, with a team left in standby
C1_Witness ==
    /\ audit # <<>>
    /\ LastAudit.action = "COMPLETE"
    /\ LastAudit.padId = 1
    /\ boardState.pads[1].now.id = "B"
    /\ boardState.pads[1].onDeck.id = "C"
    /\ Len(boardState.pads[1].standby) = 1

UniqueIds(state) ==
    \A p \in PadIdsOf(state) : NoDuplicate(IdsOfPad(state.pads[p]))

\* the step inserts, on some pad, a team id that the pad already holds
InsertsPresentId ==
    \E s \in Sockets, p \in AllPadIds, w \in Wheres, id \in TeamIds :
        /\ AdminTeamAdd(s, p, w, id) \/ JudgeAddTeam(s, p, w, id)
        /\ PadHasId(boardState.pads[p], id)

\* C2: on every pad each competitor id occurs at most once across now, onDeck
\* and standby, after any sequence of commands.  Stated as what every command
\* must preserve, inserts of an id the pad already holds set aside: a step
\* from a board with unique ids leads to a board with unique ids.
C2_UniqueIds ==
    [][(UniqueIds(boardState) /\ ~InsertsPresentId) => UniqueIds(boardState')]_vars

\* C3: on every pad of a broadcast state, reportByDeadlineAt is non-null only
\* if now is occupied, no valid arrival is recorded for the occupant, and
\* neither a local break on the pad nor the global break is active.  The board
\* was last broadcast at boardState.updatedAt.
C3_DeadlineOnlyWhenReporting ==
    \A p \in PadIdsOf(boardState) :
        LET pad == boardState.pads[p]
        IN  pad.reportByDeadlineAt # NullTs =>
                /\ pad.now # NoTeam
                /\ ~isArrivedForNow(pad)
                /\ ~(pad.breakUntilAt # NullTs /\ pad.breakUntilAt > boardState.updatedAt)
                /\ ~globalBreakActive(boardState, boardState.updatedAt)

\* the parts of the board an undo is to restore: pads, global break and
\* message, cycle-time statistics
Restorable(state) ==
    [pads |-> state.pads,
     globalBreakStartAt |-> state.globalBreakStartAt,
     globalBreakUntilAt |-> state.globalBreakUntilAt,
     globalBreakReason |-> state.globalBreakReason,
     globalMessage |-> state.globalMessage,
     globalMessageUntilAt |-> state.globalMessageUntilAt,
     cycleStatsByPad |-> state.cycleStatsByPad,
     cycleStatsByLabel |-> state.cycleStatsByLabel]

\* the step is a command on the existing pad p (its audit entry names p),
\* not an undo, that changes the board
MutatesPad(p) ==
    /\ p \in PadIdsOf(boardState)
    /\ cmdsLeft' < cmdsLeft
    /\ audit' # audit
    /\ audit'[Len(audit')].padId = p
    /\ audit'[Len(audit')].action \notin {"UNDO", "UNDO_NOT_AVAILABLE"}
    /\ Restorable(boardState') # Restorable(boardState)

\* C4: for every mutating command on a pad P, an Undo for P issued next makes
\* the board equal to the state before that command: the command leaves that
\* state on top of P's undo stack, and judge:undo makes the board equal to the
\* top of the stack.
C4_UndoRestores ==
    [][\A p \in AllPadIds :
          /\ MutatesPad(p) =>
                 /\ undoAvailable(padHistory', p)
                 /\ Restorable(undoTop(padHistory', p)) = Restorable(boardState)
          /\ (JudgeUndo("judge1", p) /\ undoAvailable(padHistory, p)) =>
                 Restorable(boardState') = Restorable(undoTop(padHistory, p))]_vars

\* C6: while the event status is PLANNING no pad carries a report deadline.
C6_NoDeadlineInPlanning ==
    boardState.eventStatus = "PLANNING" =>
        \A p \in PadIdsOf(boardState) : boardState.pads[p].reportByDeadlineAt = NullTs

(***************************************************************************)
(* The break scenario: one pad of a loaded roster, its local break, the    *)
(* arrival and an id edit of its NOW team, the global break, Complete.     *)
(***************************************************************************)
InitBreak == Start(MaxBreakSteps, MaxTicks)

NextBreak ==
    \/ Tick
    \/ AdminLoadRoster("admin1", <<1, 1, MaxPad>>)
    \/ \E m \in BreakMinutes : JudgeStartBreak("judge1", 1, m)
    \/ JudgeArrived("judge1", 1)
    \/ \E id \in {"A", "B"} : AdminQueueUpdateTeam("admin1", 1, id, "C")
    \/ AdminStartGlobalBreak("admin1", 2)
    \/ JudgeComplete("judge1", 1)

SpecBreak == InitBreak /\ [][NextBreak]_vars

\* a pad without its modification stamp: queue, timers, status, break fields
PadCore(pad) == [pad EXCEPT !.updatedAt = NullTs]

BlockedActions == {"COMPLETE_BLOCKED", "BREAK_BLOCKED"}

\* C5: while the global break is active, judge:complete and judge:startBreak
\* change no pad's queue, timers, status or break fields, push no undo
\* snapshot and append one audit entry that records the block; outside the
\* active window they are not blocked.
C5_BlockedByGlobalBreak ==
    [][\A p \in AllPadIds :
          (JudgeComplete("judge1", p) \/ \E m \in BreakMinutes : JudgeStartBreak("judge1", p, m)) =>
              IF globalBreakActive(boardState, nowMs)
              THEN /\ PadIdsOf(boardState') = PadIdsOf(boardState)
                   /\ \A q \in PadIdsOf(boardState) :
                          PadCore(boardState'.pads[q]) = PadCore(boardState.pads[q])
                   /\ padHistory' = padHistory
                   /\ Len(audit') = Len(audit) + 1
                   /\ audit'[Len(audit')].padId = p
                   /\ audit'[Len(audit')].action \in BlockedActions
              ELSE audit'[Len(audit')].action \notin BlockedActions]_vars

(***************************************************************************)
(* The event-clock scenario: start, pause, resume, set-planning, roster    *)
(* load over the socket and over the REST route, a pad command and undo.   *)
(***************************************************************************)
InitEvent == Start(MaxEventSteps, MaxEventTicks)

NextEvent ==
    \/ Tick
    \/ AdminEventStartNow("admin1")
    \/ AdminEventPause("admin1")
    \/ AdminEventResume("admin1")
    \/ AdminEventSetPlanning("admin1")
    \/ AdminLoadRoster("admin1", <<1, 1, MaxPad>>)
    \/ RestReloadRoster(<<1, 1, MaxPad>>)
    \/ JudgeHold("judge1", 1)
    \/ JudgeUndo("judge1", 1)

SpecEvent == InitEvent /\ [][NextEvent]_vars

Clock == getCompetitionNowMs(boardState, nowMs)

\* C7: with the event LIVE and not paused, Pause at T followed by Resume at
\* T + d leaves the competition clock right after Resume equal to its value
\* right before Pause, and the clock has that value at every instant in
\* between: Pause, Resume and the passing of time while paused each leave
\* getCompetitionNowMs unchanged.
C7_PauseResumeNoJump ==
    [][/\ (AdminEventPause("admin1") \/ AdminEventResume("admin1")) => Clock' = Clock
       /\ (Tick /\ boardState.eventStatus = "LIVE" /\ boardState.eventPaused) =>
              Clock' = Clock]_vars

\* the event has been resumed for the second time, after two paused ticks
C7_Witness ==
    /\ audit # <<>>
    /\ LastAudit.action = "EVENT_RESUME"
    /\ Len(SelectSeq(audit, LAMBDA e : e.action = "EVENT_RESUME")) = 2
    /\ boardState.eventStatus = "LIVE"
    /\ ~boardState.eventPaused
    /\ boardState.eventPausedAccumMs = 2 * TickMs
    /\ Clock = nowMs - 2 * TickMs

\* C8: eventPausedAccumMs never decreases across any command.
C8_AccumNeverDecreases ==
    [][boardState'.eventPausedAccumMs >= boardState.eventPausedAccumMs]_vars

\* a command of the board or of the messaging sent by the connection s, with
\* any payload (getState and disconnect are not counted)
CommandBy(s) ==
    \/ \E r \in Rosters \cup {NoRoster} : AdminLoadRoster(s, r)
    \/ AdminPadAdd(s)
    \/ \E p \in AllPadIds : AdminPadDelete(s, p)
    \/ AdminClearAllQueues(s)
    \/ \E p \in AllPadIds, w \in Wheres, id \in TeamIds : AdminTeamAdd(s, p, w, id)
    \/ \E p \in AllPadIds, f \in 0..MaxStandby, t \in 0..MaxStandby : AdminStandbyMove(s, p, f, t)
    \/ \E p \in AllPadIds, id \in TeamIds, tg \in {"NOW", "ONDECK"} : AdminQueueSetSlot(s, p, id, tg)
    \/ \E p \in AllPadIds, f \in {"NOW", "ONDECK"}, t \in {"TOP", "END"} :
           AdminQueueDemote(s, p, f, t)
    \/ \E p \in AllPadIds : AdminQueueSwap(s, p)
    \/ \E p \in AllPadIds, id \in TeamIds, nid \in TeamIds : AdminQueueUpdateTeam(s, p, id, nid)
    \/ \E p \in AllPadIds, id \in TeamIds : AdminStandbyRemove(s, p, id)
    \/ \E p \in AllPadIds : JudgeComplete(s, p)
    \/ \E p \in AllPadIds : JudgeHold(s, p)
    \/ \E p \in AllPadIds, tag \in {"DNS", "DQ"} : JudgeMark(s, p, tag)
    \/ \E p \in AllPadIds : JudgeUndo(s, p)
    \/ \E p \in AllPadIds : JudgeArrived(s, p)
    \/ \E p \in AllPadIds : JudgeSwap(s, p)
    \/ \E p \in AllPadIds : JudgeSkipOnDeck(s, p)
    \/ \E p \in AllPadIds : JudgeClear(s, p)
    \/ \E p \in AllPadIds, m \in BreakMinutes : JudgeStartBreak(s, p, m)
    \/ \E p \in AllPadIds : JudgeEndBreak(s, p)
    \/ \E p \in AllPadIds, w \in Wheres, id \in TeamIds : JudgeAddTeam(s, p, w, id)
    \/ \E p \in AllPadIds, l \in Labels : JudgeSetPadLabel(s, p, l)
    \/ \E m \in {0, 1} : AdminSetGlobalMessage(s, "msg", m)
    \/ AdminClearGlobalMessage(s)
    \/ AdminSetEventHeaderLabel(s, "HEADER")
    \/ \E m \in BreakMinutes : AdminStartGlobalBreak(s, m)
    \/ \E m \in BreakMinutes : AdminScheduleGlobalBreak(s, nowMs + TickMs, m)
    \/ AdminEndGlobalBreak(s)
    \/ AdminEventStartNow(s)
    \/ AdminEventSetPlanning(s)
    \/ AdminEventPause(s)
    \/ AdminEventResume(s)
    \/ CommRegister(s)
    \/ \E p \in AllPadIds : CommJoinPad(s, p)
    \/ \E p \in AllPadIds : CommPresence(s, p)
    \/ \E p \in AllPadIds, u \in BOOLEAN : AdminCommSend(s, p, u)
    \/ JudgeCommSend(s)
    \/ \E m \in 1..MaxMsgs : JudgeCommAck(s, m)
    \/ \E p \in AllPadIds \cup {-1}, tg \in {"ALL", "PAD"} : AdminCommBroadcast(s, tg, p)

\* C17: a command sent by a public connection leaves the board, the audit
\* log, the channels and their messages as they were.
C17_PublicIsReadOnly ==
    [][CommandBy("public1") =>
          UNCHANGED <<boardState, audit, commChannels, chatMsgs>>]_vars

\* an area-scoped judge command of the connection s aimed at pad p
JudgeAreaCommand(s, p) ==
    \/ JudgeComplete(s, p)
    \/ JudgeHold(s, p)
    \/ \E tag \in {"DNS", "DQ"} : JudgeMark(s, p, tag)
    \/ JudgeUndo(s, p)
    \/ JudgeArrived(s, p)
    \/ JudgeSwap(s, p)
    \/ JudgeSkipOnDeck(s, p)
    \/ JudgeClear(s, p)
    \/ \E m \in BreakMinutes : JudgeStartBreak(s, p, m)
    \/ JudgeEndBreak(s, p)
    \/ \E w \in Wheres, id \in TeamIds : JudgeAddTeam(s, p, w, id)
    \/ \E l \in Labels : JudgeSetPadLabel(s, p, l)

\* C18: an area-scoped command of a judge connection aimed at a pad that
\* the connection is not bound to (another pad, or no binding yet) changes
\* neither the board nor the undo stacks nor the audit log.
C18_JudgeBoundPadOnly ==
    [][\A p \in AllPadIds :
          (JudgeAreaCommand("judge1", p) /\ sockPad["judge1"] # p) =>
              UNCHANGED <<boardState, padHistory, audit>>]_vars

(***************************************************************************)
(* The messaging scenario: pads are added, connections register, join and  *)
(* leave, messages are sent, acknowledged and broadcast.                   *)
(***************************************************************************)
MsgIds == 1..MaxMsgs

\* the pad ids a broadcast payload may carry: those of pads, and a negative one
PayloadPads == AllPadIds \cup {-1}

InitComm == Start(MaxCommSteps, MaxTicks)

NextComm ==
    \/ Tick
    \/ AdminPadAdd("admin1")
    \/ \E s \in Sockets : CommRegister(s)
    \/ \E s \in Sockets, p \in AllPadIds : CommJoinPad(s, p)
    \/ \E s \in Sockets, p \in AllPadIds : CommPresence(s, p)
    \/ \E s \in Sockets, p \in AllPadIds, u \in BOOLEAN : AdminCommSend(s, p, u)
    \/ \E s \in Sockets : JudgeCommSend(s)
    \/ \E s \in Sockets, m \in MsgIds : JudgeCommAck(s, m)
    \/ \E s \in Sockets, p \in PayloadPads, tg \in {"ALL", "PAD"} : AdminCommBroadcast(s, tg, p)
    \/ \E s \in Sockets : SocketDisconnect(s)

SpecComm == InitComm /\ [][NextComm]_vars

InChannel(m, padId) ==
    \E i \in 1..Len(channelOf(commChannels, padId)) : channelOf(commChannels, padId)[i] = m

\* C9: once a message's ackedAt is set, no command changes or clears it.
C9_AckedAtIsFinal ==
    [][\A m \in DOMAIN chatMsgs :
          chatMsgs[m].ackedAt # NullTs =>
              /\ m \in DOMAIN chatMsgs'
              /\ chatMsgs'[m].ackedAt = chatMsgs[m].ackedAt]_vars

\* a message acknowledged at an earlier instant shares its channel with a
\* judge's reply sent later
C9_Witness ==
    \E m, r \in DOMAIN chatMsgs, p \in DOMAIN commChannels :
        /\ InChannel(m, p) /\ InChannel(r, p)
        /\ chatMsgs[m].ackedAt # NullTs
        /\ chatMsgs[r].from = "JUDGE"
        /\ chatMsgs[r].ts > chatMsgs[m].ackedAt

\* the message m is held only by channels of pads other than the pad the
\* connection s is bound to, or s is bound to no pad
AckOutOfScope(s, m) ==
    /\ m \in DOMAIN chatMsgs
    /\ \E p \in DOMAIN commChannels : InChannel(m, p)
    /\ sockPad[s] # NoPad => ~InChannel(m, sockPad[s])

\* C10: judge:comm:ack for a message that is only in the channel of a pad
\* other than the connection's bound pad, or sent before the connection is
\* bound, leaves the message and every channel unchanged.
C10_AckOutOfScopeRejected ==
    [][\A s \in Sockets, m \in MsgIds :
          (JudgeCommAck(s, m) /\ AckOutOfScope(s, m)) =>
              /\ chatMsgs' = chatMsgs
              /\ commChannels' = commChannels]_vars

\* judge1 is bound to pad 1, the only message is urgent, unacknowledged and in
\* pad 2's channel only, and a fifth command has left the messaging state as
\* the first four built it
C10_Witness ==
    /\ sockPad["judge1"] = 1
    /\ Len(chatMsgs) = 1
    /\ chatMsgs[1].urgent
    /\ chatMsgs[1].ackedAt = NullTs
    /\ InChannel(1, 2)
    /\ ~InChannel(1, 1)
    /\ AckOutOfScope("judge1", 1)
    /\ cmdsLeft = MaxCommSteps - 5


(***************************************************************************)
(* The persistence scenario: messages are sent and broadcast while the     *)
(* clock moves in half windows, the save timer fires or fails, the process *)
(* crashes and is started again.                                           *)
(***************************************************************************)
InitSave == Start(MaxSaveSteps, MaxSaveTicks)

NextSave ==
    \/ TickShort
    \/ AdminPadAdd("admin1")
    \/ \E p \in AllPadIds, u \in BOOLEAN : AdminCommSend("admin1", p, u)
    \/ \E tg \in {"ALL", "PAD"} : AdminCommBroadcast("admin1", tg, 1)
    \/ SaveTimerFires
    \/ \E step \in SaveSteps : SaveTimerFails(step)
    \/ \E step \in SaveSteps \cup {"idle"} : ProcessCrash(step)
    \/ ServerStart

SpecSave == InitSave /\ [][NextSave]_vars

\* C11: while a save is pending, further triggers neither re-arm the timer
\* nor write; the final file is written only when the pending timer is due,
\* the write clears the pending flag and holds the channels as they are at
\* write time, and two writes are at least one throttle window apart.
C11_ThrottledSave ==
    [][/\ (saveScheduled /\ saveScheduled') =>
              (saveTimer' = saveTimer /\ commFile' = commFile)
       /\ commFile' # commFile =>
              /\ saveScheduled /\ ~saveScheduled'
              /\ nowMs >= saveTimer
              /\ commFile' = writtenFile(commChannels', chatMsgs', nowMs')
              /\ commFile.exists => commFile'.mtime >= commFile.mtime + DEBOUNCE_MS]_vars

\* one write holds two messages of a channel: the second was sent inside
\* the window that the first one opened, the write came when it closed
C11_Witness ==
    /\ commFile.exists
    /\ \E i \in 1..Len(commFile.channels) :
          LET msgs == commFile.channels[i].msgs
          IN  /\ Len(msgs) = 2
              /\ msgs[2].ts[2] > msgs[1].ts[2]
              /\ msgs[2].ts[2] < msgs[1].ts[2] + DEBOUNCE_MS
              /\ commFile.mtime >= msgs[1].ts[2] + DEBOUNCE_MS
              /\ commFile.mtime < msgs[1].ts[2] + 2 * DEBOUNCE_MS


\* C12: in every state, a state after a crash inside a save included, the
\* final file does not exist or is complete; it only ever changes to the
\* complete serialization of the channels of that moment, and the save that
\* changes it leaves no temporary file.
C12_AtomicSave ==
    [][/\ commFile'.exists => commFile'.complete
       /\ commFile' # commFile =>
              /\ commFile' = writtenFile(commChannels, chatMsgs, nowMs)
              /\ ~commTmp'.exists]_vars

\* the process died inside writeFileSync of a second save: the temporary
\* file is cut short and the final file still is the first save's
C12_Witness ==
    /\ ~commChannelsLoaded
    /\ commTmp.exists /\ ~commTmp.complete
    /\ commFile.exists /\ commFile.complete
    /\ commFile.mtime < commTmp.mtime
    /\ Len(commFile.channels) > 0


(***************************************************************************)
(* The load scenario: a new process finds a chat file that JSON.parse      *)
(* accepts, with any of the values below in its keys and in the ts,        *)
(* ackedAt and urgent fields of its messages; the server starts, a judge   *)
(* joins a pad and acknowledges.  Channel "1" holds two messages, a second *)
(* key (if any) holds one.  A number too large for a double (1e999) parses *)
(* to Infinity; NaN is not JSON, JSON.stringify writes it as null.         *)
(***************************************************************************)
GoodTs == 1234
RawTs == {Num(GoodTs), Str("2"), Str("x"), JsNull, JsUndef, Bool(TRUE), JsInf, <<"inf", -1>>}
RawAckedAt == {JsUndef, JsNull, Num(GoodTs + 1), Str("2"), Str("x"), Bool(TRUE), JsInf}
RawUrgent == {JsUndef, JsNull, Bool(TRUE), Bool(FALSE), Str("true"), Str("false"), Str("x"),
              Num(1)}
LoadKeys == {"2", "1.9", "01", "0", "-1", "x"}
LoadIds == {101, 102, 103}

RawMessage(id, ts, ackedAt, urgent) ==
    [id |-> Uid(id), ts |-> ts, from |-> Str("ADMIN"), text |-> Str("text"),
     urgent |-> urgent, ackedAt |-> ackedAt]

RawMessages(id, goodTs) ==
    {RawMessage(id, ts, JsUndef, JsUndef) : ts \in RawTs}
        \cup {RawMessage(id, Num(goodTs), a, Bool(TRUE)) : a \in RawAckedAt}
        \cup {RawMessage(id, Num(goodTs), JsUndef, u) : u \in RawUrgent}

\* the entries in Object.entries order: "0", "1", "2" ascending, then the rest
LoadEntries(first, second, key) ==
    LET one == [key |-> "1", msgs |-> <<first, second>>]
        other == [key |-> key, msgs |-> <<RawMessage(103, Num(GoodTs + 2), JsUndef, JsUndef)>>]
    IN  IF key = "" THEN <<one>> ELSE IF key = "0" THEN <<other, one>> ELSE <<one, other>>

LoadFiles ==
    {[exists |-> TRUE, complete |-> TRUE, mtime |-> T0 - 1, channels |-> LoadEntries(a, b, k)] :
        a \in RawMessages(101, GoodTs), b \in RawMessages(102, GoodTs + 1),
        k \in LoadKeys \cup {""}}

\* a process that has not served its first request
InitLoad ==
    /\ nowMs = T0
    /\ boardState = sanitizeStateAfterAnyLoad(createInitialState(T0), T0)
    /\ padHistory = <<>>
    /\ audit = <<>>
    /\ commChannels = <<>>
    /\ chatMsgs = <<>>
    /\ commAdmins = {}
    /\ commPadViewers = <<>>
    /\ commJudges = <<>>
    /\ sockPad = [s \in Sockets |-> NoPad]
    /\ commChannelsLoaded = FALSE
    /\ saveScheduled = FALSE
    /\ saveTimer = NullTs
    /\ commFile \in LoadFiles
    /\ commTmp = NoFile
    /\ clientView = [s \in Sockets |-> <<boardState, <<>>>>]
    /\ errorLog = <<>>
    /\ urgentAcked = <<>>
    /\ cmdsLeft = MaxLoadSteps
    /\ ticksLeft = 0

NextLoad ==
    \/ ServerStart
    \/ AdminPadAdd("admin1")
    \/ CommJoinPad("judge1", 1)
    \/ \E m \in LoadIds : JudgeCommAck("judge1", m)

SpecLoad == InitLoad /\ [][NextLoad]_vars


\* the channel entries of the file whose key is a pad id
LoadableEntries == {i \in 1..Len(commFile.channels) : parsePadKey(commFile.channels[i].key) # NoPad}

\* a persisted value that is a finite number, or a string that spells one
IsFiniteNumber(v) == v[1] \in {"num", "frac"} \/ (v[1] = "str" /\ IsFinite(StringToNumber(v[2])))

HasFiniteTs(m) == IsFiniteNumber(m.ts)

\* C13: loading drops exactly the persisted messages whose ts is not a
\* finite number and keeps the others in their order, each with its ts.
C13_LoadDropsNonFiniteTs ==
    commChannelsLoaded =>
    \A i \in LoadableEntries :
        LET kept == SelectSeq(commFile.channels[i].msgs, HasFiniteTs)
            out == loadMessages(commFile.channels[i].msgs)
        IN  /\ Len(out) = Len(kept)
            /\ \A j \in 1..Len(kept) :
                   out[j].id = kept[j].id[2] /\ out[j].ts = ToNumber(kept[j].ts)


\* the persisted messages that loading keeps
LoadedFrom(i) ==
    {j \in 1..Len(commFile.channels[i].msgs) :
        LET m == commFile.channels[i].msgs[j]
        IN  isMessageObject(m) /\ tsIsFinite(loadMessage(m))}

\* C14: a persisted ackedAt that is not a finite number loads as undefined,
\* a finite one loads with its value.
C14_InvalidAckedAtIsUnacked ==
    commChannelsLoaded =>
    \A i \in LoadableEntries : \A j \in LoadedFrom(i) :
        LET m == commFile.channels[i].msgs[j]
        IN  loadMessage(m).ackedAt =
                IF IsFiniteNumber(m.ackedAt) THEN ToNumber(m.ackedAt) ELSE JsUndef

\* the persisted message that the object h of the memory was loaded from
SourceOf(h) ==
    {m \in UNION {{commFile.channels[i].msgs[j] : j \in LoadedFrom(i)} : i \in LoadableEntries} :
        m.id = Uid(chatMsgs[h].id)}

\* C15: a loaded message is urgent exactly when its persisted urgent is the
\* boolean true or the string "true".
C15_StrictUrgent ==
    commChannelsLoaded =>
    \A h \in DOMAIN chatMsgs : \A m \in SourceOf(h) :
        chatMsgs[h].urgent <=> (m.urgent = Bool(TRUE) \/ m.urgent = Str("true"))

\* the server has loaded a file whose first message has urgent "false" and
\* whose second has urgent 1: neither is urgent in memory
C15_Witness ==
    /\ commChannelsLoaded
    /\ Len(chatMsgs) >= 2
    /\ commFile.channels[1].key = "1"
    /\ commFile.channels[1].msgs[1].urgent = Str("false")
    /\ commFile.channels[1].msgs[2].urgent = Num(1)
    /\ chatMsgs[1].id = 101 /\ ~chatMsgs[1].urgent
    /\ chatMsgs[2].id = 102 /\ ~chatMsgs[2].urgent


\* C16: every key of the channel store is a positive integer.
C16_ChannelKeysPositive == \A k \in DOMAIN commChannels : k >= 1


\* C19: between commands, what every connection received last is the
\* server's current board and audit log.
C19_ClientsSeeServerState ==
    \A s \in Sockets : clientView[s] = <<boardState, audit>>


(***************************************************************************)
(* The exception scenario: handlers throw between ordinary commands of the *)
(* same and of other connections.                                          *)
(***************************************************************************)
InitThrow == Start(MaxThrowSteps, MaxTicks)

NextThrow ==
    \/ Tick
    \/ \E s \in Sockets, at \in ThrowPoints : HandlerThrows(s, at)
    \/ \E s \in Sockets : AdminPadAdd(s)
    \/ \E id \in {"A", "B"} : AdminTeamAdd("admin1", 1, "NOW", id)
    \/ JudgeComplete("judge1", 1)
    \/ CommJoinPad("judge1", 1)
    \/ \E u \in BOOLEAN : AdminCommSend("admin1", 1, u)
    \/ \E s \in Sockets : SocketDisconnect(s)

SpecThrow == InitThrow /\ [][NextThrow]_vars

\* C20: when a handler throws, the exception is caught and logged: the
\* process keeps running, no connection loses its role data, pad binding or
\* registration, the channels, the save timer, the undo stacks and the audit
\* log are as before, and a command is accepted afterwards exactly when the
\* run has one left.
C20_HandlerExceptionIsCaught ==
    [][\A s \in Sockets, at \in ThrowPoints :
          HandlerThrows(s, at) =>
              /\ commChannelsLoaded'
              /\ errorLog' = Append(errorLog, [ts |-> nowMs, from |-> s])
              /\ UNCHANGED <<commVars, saveVars, padHistory, audit>>
              /\ CanCmd' <=> cmdsLeft' > 0]_vars

\* a handler of judge1 threw; later the same connection completed a run and
\* the admin connection added a team
C20_Witness ==
    /\ Len(errorLog) = 1
    /\ errorLog[1].from = "judge1"
    /\ \E i, j \in 1..Len(audit) :
          /\ audit[i].action = "COMPLETE" /\ audit[i].ts > errorLog[1].ts
          /\ audit[j].action = "ADMIN_TEAM_ADD" /\ audit[j].ts > errorLog[1].ts

(***************************************************************************)
(* Properties of the board: audit trail, inserts, roster loads, queue      *)
(* edits, sanitation, undo snapshots                                       *)
(***************************************************************************)
\* the step is a command other than getState
IsCommand == cmdsLeft' < cmdsLeft /\ ~(\E s \in Sockets : GetState(s))

\* C21: every mutating command appends exactly one audit entry, stamped with
\* the time of the command; an attempt that is rejected or ends as a no-op
\* also appends exactly one entry; no command appends more than one.
C21_OneAuditPerCommand ==
    [][/\ Len(audit') <= Len(audit) + 1
       /\ IsCommand =>
              /\ Len(audit') = Len(audit) + 1
              /\ SubSeq(audit', 1, Len(audit)) = audit
              /\ audit'[Len(audit')].ts = nowMs]_vars

\* the pad is idle and holds no team, no local break is set on it
IdleEmptyPad(pad) ==
    /\ pad.status = "IDLE"
    /\ pad.now = NoTeam /\ pad.onDeck = NoTeam /\ pad.standby = <<>>
    /\ pad.breakUntilAt = NullTs

\* the step inserts team id at NOW of pad p (admin:team:add or judge:addTeam)
InsertsAtNow(p, id) ==
    \E s \in Sockets : AdminTeamAdd(s, p, "NOW", id) \/ JudgeAddTeam(s, p, "NOW", id)

\* C22: with the event LIVE and no break active, inserting a team at NOW on
\* an IDLE pad with empty slots at time t yields now = that team,
\* reportByTeamId = its id, reportByDeadlineAt = t + 300000 ms and status
\* REPORTING.
C22_InsertNowStartsTimer ==
    [][\A p \in AllPadIds, id \in TeamIds :
          (/\ InsertsAtNow(p, id)
           /\ boardState.eventStatus = "LIVE"
           /\ ~globalBreakActive(boardState, nowMs)
           /\ IdleEmptyPad(boardState.pads[p])) =>
              LET new == boardState'.pads[p]
              IN  /\ new.now = Team(id, "MANUAL")
                  /\ new.reportByTeamId = id
                  /\ new.reportByDeadlineAt = nowMs + 300000
                  /\ new.status = "REPORTING"]_vars

\* the event is live, and the last command put team A in NOW of the
\* otherwise empty pad 1, which is now reporting
C22_Witness ==
    /\ boardState.eventStatus = "LIVE"
    /\ audit # <<>>
    /\ LastAudit.action \in {"ADMIN_TEAM_ADD", "MANUAL_ADD"}
    /\ LastAudit.padId = 1
    /\ 1 \in PadIdsOf(boardState)
    /\ boardState.pads[1].now = Team("A", "MANUAL")
    /\ boardState.pads[1].onDeck = NoTeam
    /\ boardState.pads[1].standby = <<>>
    /\ boardState.pads[1].status = "REPORTING"
    /\ boardState.pads[1].reportByDeadlineAt = LastAudit.ts + REPORT_WINDOW_MS
    /\ Len(stackOf(padHistory, 1)) = 1
    /\ IdleEmptyPad(undoTop(padHistory, 1).pads[1])
    /\ undoTop(padHistory, 1).eventStatus = "LIVE"

\* the step loads or reloads the roster: admin:loadRoster, admin:reloadRoster
\* or POST /api/reload-roster, with a roster file that could be read
LoadsRoster ==
    \/ \E s \in Sockets, r \in Rosters : AdminLoadRoster(s, r)
    \/ \E r \in Rosters : RestReloadRoster(r)

\* the event status as the code reads it
EventStatusOf(state) == IF state.eventStatus = "LIVE" THEN "LIVE" ELSE "PLANNING"

\* C23: if the event is LIVE when the roster is loaded or reloaded, the
\* event status is still LIVE afterwards; if it was PLANNING it is PLANNING
\* afterwards.  An undefined status is read as PLANNING, as every reader of
\* the field does (eventStatus === "LIVE").
C23_RosterLoadKeepsEventStatus ==
    [][LoadsRoster => EventStatusOf(boardState') = EventStatusOf(boardState)]_vars

\* C25: after admin:queue:demote(from, to) with the source slot occupied,
\* the demoted competitor is no longer in its source slot and is in standby
\* at the requested end (first element for TOP, last element for END); when
\* from = NOW the vacated slot is refilled by the advance (now = the prior
\* onDeck) and no cycle-time sample is recorded.
C25_DemoteMovesToStandby ==
    [][\A p \in AllPadIds, from \in {"NOW", "ONDECK"}, to \in {"TOP", "END"} :
          (/\ AdminQueueDemote("admin1", p, from, to)
           /\ (IF from = "NOW" THEN boardState.pads[p].now
               ELSE boardState.pads[p].onDeck) # NoTeam) =>
              LET old == boardState.pads[p]
                  new == boardState'.pads[p]
                  moved == IF from = "NOW" THEN old.now ELSE old.onDeck
              IN  /\ (IF from = "NOW" THEN new.now ELSE new.onDeck) # moved
                  /\ new.standby # <<>>
                  /\ to = "TOP" => Head(new.standby) = moved
                  /\ to = "END" => new.standby[Len(new.standby)] = moved
                  /\ from = "NOW" => new.now = old.onDeck
                  /\ boardState'.cycleStatsByPad = boardState.cycleStatsByPad
                  /\ boardState'.cycleStatsByLabel = boardState.cycleStatsByLabel]_vars

\* how often the id occurs on the pad
CountOnPad(pad, id) ==
    Cardinality({i \in 1..Len(IdsOfPad(pad)) : IdsOfPad(pad)[i] = id})

\* the step inserts team id at slot w of pad p
Inserts(p, w, id) ==
    \E s \in Sockets : AdminTeamAdd(s, p, w, id) \/ JudgeAddTeam(s, p, w, id)

\* a team, or nothing, as a sequence
AsSeq(team) == IF team # NoTeam THEN <<team>> ELSE <<>>

\* C26: insert at NOW makes the team now, moves the previous now to onDeck
\* and the previous onDeck to the front of standby; insert at ON_DECK makes
\* the team onDeck and moves the previous onDeck to the front of standby;
\* insert at END appends the team as the last element of standby; for every
\* prior occupancy of the slots, each competitor that was on the pad is
\* still on the pad exactly once.  Checked for inserts of a team that is
\* not on the pad, on pads that hold no competitor twice.
C26_InsertBumps ==
    [][\A p \in AllPadIds, w \in Wheres, id \in TeamIds :
          (/\ Inserts(p, w, id)
           /\ NoDuplicate(IdsOfPad(boardState.pads[p]))
           /\ ~PadHasId(boardState.pads[p], id)) =>
              LET old == boardState.pads[p]
                  new == boardState'.pads[p]
                  team == Team(id, "MANUAL")
              IN  /\ w = "NOW" =>
                         /\ new.now = team
                         /\ new.onDeck = old.now
                         /\ new.standby = AsSeq(old.onDeck) \o old.standby
                  /\ w = "ONDECK" =>
                         /\ new.now = old.now
                         /\ new.onDeck = team
                         /\ new.standby = AsSeq(old.onDeck) \o old.standby
                  /\ w = "END" =>
                         /\ new.now = old.now
                         /\ new.onDeck = old.onDeck
                         /\ new.standby = Append(old.standby, team)
                  /\ \A x \in TeamIds :
                         PadHasId(old, x) \/ x = id => CountOnPad(new, x) = 1]_vars

\* the pad's report deadline and arrival record name the team in NOW, or
\* are empty
BookkeepingRefersToNow(pad) ==
    /\ pad.reportByDeadlineAt # NullTs =>
           pad.now # NoTeam /\ pad.reportByTeamId = pad.now.id
    /\ pad.reportByTeamId # NoId =>
           pad.now # NoTeam /\ pad.reportByTeamId = pad.now.id
    /\ (pad.nowArrivedAt # NullTs \/ pad.nowArrivedTeamId # NoId) =>
           pad.now # NoTeam /\ pad.nowArrivedTeamId = pad.now.id

\* C27: admin:queue:setSlot(team, target) for a team present on the pad
\* leaves the team in the target slot and nowhere else on the pad, every
\* other competitor on the pad exactly once, and the report deadline and
\* the arrival record referring to the competitor that is now in NOW (or
\* empty if NOW is empty).  Checked on pads that hold no competitor twice
\* and whose bookkeeping referred to NOW before the command.
C27_SetSlotMoves ==
    [][\A p \in AllPadIds, id \in TeamIds, tg \in {"NOW", "ONDECK"} :
          (/\ AdminQueueSetSlot("admin1", p, id, tg)
           /\ PadHasId(boardState.pads[p], id)
           /\ NoDuplicate(IdsOfPad(boardState.pads[p]))
           /\ BookkeepingRefersToNow(boardState.pads[p])) =>
              LET old == boardState.pads[p]
                  new == boardState'.pads[p]
              IN  /\ (IF tg = "NOW" THEN new.now ELSE new.onDeck).id = id
                  /\ \A x \in TeamIds : PadHasId(old, x) => CountOnPad(new, x) = 1
                  /\ \A x \in TeamIds : ~PadHasId(old, x) => CountOnPad(new, x) = 0
                  /\ BookkeepingRefersToNow(new)]_vars

\* C28: after the sanitation pass that precedes every broadcast no pad
\* carries a stale report deadline: whenever reportByDeadlineAt is non-null,
\* reportByTeamId equals now.id.  Every state of the board is the outcome
\* of a sanitation pass.
C28_NoStaleDeadline ==
    \A p \in PadIdsOf(boardState) :
        LET pad == boardState.pads[p]
        IN  pad.reportByDeadlineAt # NullTs => pad.reportByTeamId = pad.now.id

\* the step is a command, not an undo, that changes the queue, timers,
\* status, break fields or label of the existing pad p
ChangesPad(p) ==
    /\ IsCommand
    /\ ~(\E s \in Sockets, q \in AllPadIds : JudgeUndo(s, q))
    /\ p \in PadIdsOf(boardState) \cap PadIdsOf(boardState')
    /\ PadCore(boardState'.pads[p]) # PadCore(boardState.pads[p])

\* C29: every command that changes a pad's queue, timers, status, break
\* fields or label, board-wide commands included, pushes a copy of the
\* whole board as it was before the command onto the undo stack of each pad
\* it changes, so that an Undo for that pad is available afterwards.
C29_SnapshotBeforeChange ==
    [][\A p \in 1..RosterPadCount :
          ChangesPad(p) =>
              /\ undoAvailable(padHistory', p)
              /\ undoTop(padHistory', p) = boardState
              /\ Len(stackOf(padHistory', p)) = Len(stackOf(padHistory, p)) + 1]_vars

(***************************************************************************)
(* Properties of the messaging: who may send urgent messages and who may   *)
(* acknowledge them                                                        *)
(***************************************************************************)
\* the messages the step created
NewMessages == DOMAIN chatMsgs' \ DOMAIN chatMsgs

\* the messages the step acknowledged
NewlyAcked ==
    {m \in DOMAIN chatMsgs \cap DOMAIN chatMsgs' :
        chatMsgs[m].ackedAt = NullTs /\ chatMsgs'[m].ackedAt # NullTs}

\* the step appended a message to a channel or took one out of it
ChannelContentChanged ==
    \E p \in DOMAIN commChannels \cup DOMAIN commChannels' :
        channelOf(commChannels', p) # channelOf(commChannels, p)

\* C24: only an admin connection creates an urgent message and only a
\* judge connection acknowledges one: an urgent message comes from
\* admin:comm:send of the admin connection, a message of a judge's send is
\* never urgent whatever the payload says, an acknowledgement comes from a
\* command of the judge connection, and the public connection and commands
\* of the wrong role change no channel and no message.
C24_UrgentByAdminAckByJudge ==
    [][/\ \A m \in NewMessages :
              /\ chatMsgs'[m].urgent =>
                     /\ chatMsgs'[m].from = "ADMIN"
                     /\ \E p \in AllPadIds : AdminCommSend("admin1", p, TRUE)
              /\ chatMsgs'[m].from = "JUDGE" => JudgeCommSend("judge1")
              /\ chatMsgs'[m].from = "ADMIN" =>
                     \/ \E p \in AllPadIds, u \in BOOLEAN : AdminCommSend("admin1", p, u)
                     \/ \E p \in PayloadPads, tg \in {"ALL", "PAD"} :
                            AdminCommBroadcast("admin1", tg, p)
       /\ NewlyAcked # {} =>
              \/ JudgeCommSend("judge1")
              \/ \E m \in MsgIds : JudgeCommAck("judge1", m)
       /\ (ChannelContentChanged \/ chatMsgs' # chatMsgs) =>
              (NewMessages # {} \/ NewlyAcked # {})]_vars

\* the channel of pad 1 holds an urgent message of the admin that the judge's
\* later reply acknowledged, and the reply is not urgent
C24_Witness ==
    \E m, r \in DOMAIN chatMsgs :
        /\ InChannel(m, 1) /\ InChannel(r, 1)
        /\ chatMsgs[m].from = "ADMIN" /\ chatMsgs[m].urgent
        /\ chatMsgs[r].from = "JUDGE" /\ ~chatMsgs[r].urgent
        /\ chatMsgs[m].ackedAt = chatMsgs[r].ts
        /\ sockPad["judge1"] = 1
        /\ commAdmins = {"admin1"}

\* the position i of the channel holds an urgent message without ackedAt
OpenUrgentAt(ch, i) == chatMsgs[ch[i]].urgent /\ chatMsgs[ch[i]].ackedAt = NullTs

\* C30: when a bound judge sends a reply in its pad, the most recent message
\* of that pad's channel that is urgent and unacknowledged, if any, gets its
\* ackedAt set and the reply is appended after it; no other message, in that
\* channel or in any other, has its ackedAt changed.
C30_ReplyAcksLatestUrgent ==
    [][JudgeCommSend("judge1") =>
          LET p == sockPad["judge1"]
              ch == channelOf(commChannels, p)
              reply == Len(chatMsgs) + 1
              latest == {i \in 1..Len(ch) :
                            /\ OpenUrgentAt(ch, i)
                            /\ \A j \in (i + 1)..Len(ch) : ~OpenUrgentAt(ch, j)}
          IN  /\ commChannels'[p] = Append(ch, reply)
              /\ \A q \in DOMAIN commChannels \ {p} : commChannels'[q] = commChannels[q]
              /\ chatMsgs'[reply].from = "JUDGE"
              /\ chatMsgs'[reply].ackedAt = NullTs
              /\ \A i \in latest :
                     /\ chatMsgs'[ch[i]].ackedAt = nowMs
                     /\ chatMsgs'[ch[i]].ackedAt <= chatMsgs'[reply].ts
              /\ \A m \in DOMAIN chatMsgs :
                     (\A i \in latest : ch[i] # m) =>
                         chatMsgs'[m].ackedAt = chatMsgs[m].ackedAt]_vars

\* pad 1's channel holds two urgent messages of the admin and then the
\* judge's reply: the later one was acknowledged by the reply, the earlier
\* one is still open
C30_Witness ==
    /\ sockPad["judge1"] = 1
    /\ Len(channelOf(commChannels, 1)) = 3
    /\ LET ch == channelOf(commChannels, 1)
       IN  /\ chatMsgs[ch[1]].urgent /\ chatMsgs[ch[1]].ackedAt = NullTs
           /\ chatMsgs[ch[2]].urgent /\ chatMsgs[ch[2]].ackedAt = chatMsgs[ch[3]].ts
           /\ chatMsgs[ch[3]].from = "JUDGE"
           /\ ch[1] # ch[2]

\* C31: after an admin broadcast to several pads each pad's channel holds
\* its own copy of the broadcast message, so that a change to the message
\* held in one channel cannot show in another: no message object is held by
\* the channels of two pads.
C31_BroadcastOwnCopy ==
    \A p, q \in DOMAIN commChannels :
        p # q =>
            \A i \in 1..Len(commChannels[p]), j \in 1..Len(commChannels[q]) :
                commChannels[p][i] # commChannels[q][j]

\* the "comm:urgentAcked" events of the log that name the message id
NoticesFor(log, messageId) == SelectSeq(log, LAMBDA n : n.messageId = messageId)

\* C32: a judge's explicit acknowledge and that judge's reply with
\* auto-acknowledge, processed in either order, leave an urgent message
\* acknowledged exactly once: the command that runs first sets ackedAt and
\* sends one urgent-acknowledged notification for the message to every
\* registered admin, the command that runs second changes neither ackedAt
\* nor sends a notification for it.
C32_AckedExactlyOnce ==
    [][\A m \in DOMAIN chatMsgs :
          LET id == chatMsgs[m].id
              before == NoticesFor(urgentAcked, id)
              after == NoticesFor(urgentAcked', id)
          IN  IF m \in NewlyAcked
              THEN /\ JudgeCommSend("judge1") \/ JudgeCommAck("judge1", id)
                   /\ chatMsgs'[m].ackedAt = nowMs
                   /\ Len(after) = Len(before) + Cardinality(commAdmins)
                   /\ \A a \in commAdmins :
                          Len(SelectSeq(after, LAMBDA n : n.to = a)) =
                              Len(SelectSeq(before, LAMBDA n : n.to = a)) + 1
                   /\ before = <<>>
              ELSE /\ after = before
                   /\ chatMsgs[m].ackedAt # NullTs =>
                          chatMsgs'[m].ackedAt = chatMsgs[m].ackedAt]_vars

\* the admin is registered; the only urgent message of pad 1 was
\* acknowledged explicitly and the judge replied at a later instant: the
\* message keeps the time of the acknowledge and one notification was sent
C32_Witness ==
    /\ commAdmins = {"admin1"}
    /\ Len(channelOf(commChannels, 1)) = 2
    /\ LET ch == channelOf(commChannels, 1)
       IN  /\ chatMsgs[ch[1]].urgent
           /\ chatMsgs[ch[1]].ackedAt # NullTs
           /\ chatMsgs[ch[2]].from = "JUDGE"
           /\ chatMsgs[ch[1]].ackedAt < chatMsgs[ch[2]].ts
           /\ urgentAcked = <<[to |-> "admin1", padId |-> 1, messageId |-> chatMsgs[ch[1]].id]>>

(***************************************************************************)
(* The flush scenario: messaging with a save timer that runs when it is    *)
(* due, and neither a crash nor a failing write                            *)
(***************************************************************************)
\* the clock of a server whose timers run on time: it advances by a short
\* tick but stops at the moment a pending save timer is due and does not go
\* on before the callback has run; it keeps going while a save is pending
TickFlush ==
    /\ ~SaveDue
    /\ ticksLeft > 0 \/ saveScheduled
    /\ ticksLeft' = IF ticksLeft > 0 THEN ticksLeft - 1 ELSE 0
    /\ nowMs' = IF saveTimer # NullTs /\ saveTimer < nowMs + ShortTickMs
              THEN saveTimer
              ELSE nowMs + ShortTickMs
    /\ UNCHANGED <<boardVars, commVars, saveVars, diskVars, errorLog, urgentAcked, clientView, cmdsLeft>>

InitFlush == Start(MaxFlushSteps, MaxFlushTicks)

NextFlush ==
    \/ TickFlush
    \/ AdminPadAdd("admin1")
    \/ CommJoinPad("judge1", 1)
    \/ \E u \in BOOLEAN : AdminCommSend("admin1", 1, u)
    \/ JudgeCommSend("judge1")
    \/ \E m \in MsgIds : JudgeCommAck("judge1", m)
    \/ AdminCommBroadcast("admin1", "ALL", 1)
    \/ SaveTimerFires

SpecFlush ==
    InitFlush /\ [][NextFlush]_vars /\ WF_vars(TickFlush) /\ WF_vars(SaveTimerFires)

\* the final file holds the message sm in the channel of padId
FileHas(file, padId, sm) ==
    /\ file.exists
    /\ file.complete
    /\ \E i \in 1..Len(file.channels) :
          /\ file.channels[i].key = KeyString(padId)
          /\ \E j \in 1..Len(file.channels[i].msgs) : file.channels[i].msgs[j] = sm

\* the times of the channel changes that the final file does not hold: the
\* send of a message that is not in the file, the acknowledgement of one that
\* the file holds unacknowledged
UnsavedChanges(channels, heap, file) ==
    UNION {
        {IF FileHas(file, p, stringifyMessage([heap[channels[p][j]] EXCEPT !.ackedAt = NullTs]))
         THEN heap[channels[p][j]].ackedAt
         ELSE heap[channels[p][j]].ts :
            j \in {i \in 1..Len(channels[p]) :
                      ~FileHas(file, p, stringifyMessage(heap[channels[p][i]]))}} :
        p \in DOMAIN channels}

\* C33: a step that changes a channel leaves a save scheduled, due within one
\* throttle window; with timers that run on time and no crash or write
\* failure, a change is never missing from the file later than one throttle
\* window after it was made, and every change gets written.
C33_ChangeIsWrittenInTime ==
    /\ [][/\ ChannelContentChanged \/ NewlyAcked # {} =>
                 /\ saveScheduled'
                 /\ saveTimer' # NullTs
                 /\ saveTimer' <= nowMs + DEBOUNCE_MS
          /\ \A t \in UnsavedChanges(commChannels', chatMsgs', commFile') :
                 /\ saveScheduled'
                 /\ nowMs' <= t + DEBOUNCE_MS]_vars
    /\ (UnsavedChanges(commChannels, chatMsgs, commFile) # {})
           ~> (UnsavedChanges(commChannels, chatMsgs, commFile) = {})

\* a write holds a message sent half a window after the save was scheduled
\* by an earlier one, and an acknowledgement
C33_Witness ==
    /\ commFile.exists
    /\ UnsavedChanges(commChannels, chatMsgs, commFile) = {}
    /\ \E p \in DOMAIN commChannels :
          /\ Len(commChannels[p]) >= 2
          /\ \E i, j \in 1..Len(commChannels[p]) :
                /\ chatMsgs[commChannels[p][j]].ts > chatMsgs[commChannels[p][i]].ts
                /\ commFile.mtime = chatMsgs[commChannels[p][i]].ts + DEBOUNCE_MS
                /\ chatMsgs[commChannels[p][i]].ackedAt # NullTs

(***************************************************************************)
(* Properties of the save scenario: a failing write                        *)
(***************************************************************************)
\* the step is a save callback whose write failed: it logged the error
WriteFailed == Len(errorLog') = Len(errorLog) + 1 /\ errorLog'[Len(errorLog')].from = "comm"

\* C34: a failing write leaves the channels, the board and the final file as
\* they were and the server running, with no save scheduled and no timer
\* pending (no retry); whenever no save is scheduled, a step that changes a
\* channel schedules one a full window ahead; and a set flag always has its
\* timer, so the throttle is never stuck.
C34_FailedWriteIsNotRetried ==
    [][/\ WriteFailed =>
              /\ commChannels' = commChannels
              /\ chatMsgs' = chatMsgs
              /\ boardState' = boardState
              /\ commFile' = commFile
              /\ commChannelsLoaded' = commChannelsLoaded
              /\ ~saveScheduled'
              /\ saveTimer' = NullTs
       /\ (~saveScheduled /\ ChannelContentChanged /\ commChannelsLoaded) =>
              /\ saveScheduled'
              /\ saveTimer' = nowMs + DEBOUNCE_MS
       /\ saveScheduled' => saveTimer' # NullTs
       /\ commFile' # commFile => saveScheduled]_vars

\* a write failed, a later message scheduled a new save, and that save wrote
\* the file
C34_Witness ==
    /\ errorLog # <<>>
    /\ errorLog[1].from = "comm"
    /\ commFile.exists
    /\ commFile.complete
    /\ commFile.mtime > errorLog[1].ts
    /\ \E i \in 1..Len(commFile.channels) :
          \E j \in 1..Len(commFile.channels[i].msgs) :
              commFile.channels[i].msgs[j].ts[2] > errorLog[1].ts

(***************************************************************************)
(* The end of a local break                                                *)
(***************************************************************************)
InitEndBreak == Start(MaxEndBreakSteps, MaxTicks)

NextEndBreak ==
    \/ Tick
    \/ \E r \in Rosters \ {<<>>} : AdminLoadRoster("admin1", r)
    \/ \E p \in CmdPads : JudgeStartBreak("judge1", p, 1)
    \/ JudgeArrived("judge1", 1)
    \/ AdminQueueUpdateTeam("admin1", 1, "A", "C")
    \/ \E p \in CmdPads : JudgeEndBreak("judge1", p)

SpecEndBreak == InitEndBreak /\ [][NextEndBreak]_vars

AdminPadsEnsure(s, target) ==
    /\ CanCmd
    /\ RoleOf(s) = "admin"
    /\ target > 0
    /\ LET st == [boardState EXCEPT
                    !.pads = [i \in DOMAIN boardState.pads \cup (1..target) |->
                                 IF i \in DOMAIN boardState.pads THEN boardState.pads[i]
                                 ELSE createPad(i, nowMs)],
                    !.nextPadId = Max(boardState.nextPadId, target + 1),
                    !.updatedAt = nowMs]
       IN  Done(emitState(st, nowMs), padHistory, pushAudit(audit, nowMs, 0, "PADS_ENSURE"))

InitPads == Start(MaxPadsSteps, MaxTicks)

NextPads ==
    \/ AdminPadAdd("admin1")
    \/ \E n \in CmdPads : AdminPadsEnsure("admin1", n)
    \/ \E p \in CmdPads : AdminPadDelete("admin1", p)
    \/ \E r \in {<<1, 1, MaxPad>>, NoRoster} : AdminLoadRoster("admin1", r)
    \/ \E r \in {<<1, 1, MaxPad>>, NoRoster} : RestReloadRoster(r)
    \/ \E p \in CmdPads : JudgeHold("judge1", p)
    \/ \E p \in CmdPads : JudgeUndo("judge1", p)

SpecPads == InitPads /\ [][NextPads]_vars

\* C36: nextPadId never decreases, whatever the command.
C36_NextPadIdNeverDecreases ==
    [][boardState'.nextPadId >= boardState.nextPadId]_vars

\* the step is a command that creates pads
CreatesPads ==
    /\ Len(audit') = Len(audit) + 1
    /\ audit'[Len(audit')].action \in {"AREA_ADD", "PADS_ENSURE", "ROSTER_LOAD"}

\* admin:pad:delete removed pad p at some earlier moment
WasDeleted(p) ==
    \E i \in 1..Len(audit) : audit[i].action = "AREA_DELETE" /\ audit[i].padId = p

\* C38: a pad that admin:pad:delete removed and that is absent from the
\* board only comes back through a command that creates pads (admin:pad:add,
\* admin:pads:ensure, a roster load), never through an Undo.
C38_DeletedPadStaysAbsent ==
    [][\A p \in 1..RosterPadCount :
          (WasDeleted(p) /\ ~HasPad(p) /\ p \in PadIdsOf(boardState')) =>
              CreatesPads]_vars

(***************************************************************************)
(* The queue scenario: commands that only reorder a pad's competitors      *)
(***************************************************************************)
InitQueue == Start(MaxQueueSteps, MaxTicks)

NextQueue ==
    \/ \E r \in Rosters \ {<<>>} : AdminLoadRoster("admin1", r)
    \/ \E p \in CmdPads : JudgeSwap("judge1", p)
    \/ \E p \in CmdPads : AdminQueueSwap("admin1", p)
    \/ \E p \in CmdPads : JudgeSkipOnDeck("judge1", p)
    \/ \E p \in CmdPads, f \in {"NOW", "ONDECK"}, t \in {"TOP", "END"} :
           AdminQueueDemote("admin1", p, f, t)
    \/ \E p \in CmdPads, id \in TeamIds, tg \in {"NOW", "ONDECK"} :
           AdminQueueSetSlot("admin1", p, id, tg)
    \/ \E p \in CmdPads, f \in 0..MaxStandby, t \in 0..MaxStandby :
           AdminStandbyMove("admin1", p, f, t)

SpecQueue == InitQueue /\ [][NextQueue]_vars

\* the step is a swap, skip-on-deck, demote, setSlot or standby move on pad p
ReordersPad(p) ==
    \E s \in Sockets :
        \/ JudgeSwap(s, p)
        \/ AdminQueueSwap(s, p)
        \/ JudgeSkipOnDeck(s, p)
        \/ \E f \in {"NOW", "ONDECK"}, t \in {"TOP", "END"} : AdminQueueDemote(s, p, f, t)
        \/ \E id \in TeamIds, tg \in {"NOW", "ONDECK"} : AdminQueueSetSlot(s, p, id, tg)
        \/ \E f \in 0..MaxStandby, t \in 0..MaxStandby : AdminStandbyMove(s, p, f, t)

QueueOf(pad) == <<pad.now, pad.onDeck, pad.standby>>

\* C37: swap, skip-on-deck, demote, setSlot and standby move neither add nor
\* drop nor duplicate a competitor: on a pad that holds no competitor twice,
\* every id is on the pad as often after the command as before, and the
\* queues of the other pads are unchanged.
C37_ReorderKeepsCompetitors ==
    [][\A p \in CmdPads :
          (ReordersPad(p) /\ NoDuplicate(IdsOfPad(boardState.pads[p]))) =>
              /\ PadIdsOf(boardState') = PadIdsOf(boardState)
              /\ \A id \in TeamIds :
                    CountOnPad(boardState'.pads[p], id) = CountOnPad(boardState.pads[p], id)
              /\ \A q \in PadIdsOf(boardState) \ {p} :
                    QueueOf(boardState'.pads[q]) = QueueOf(boardState.pads[q])]_vars

(***************************************************************************)
(* The round-trip scenario: messages are saved, the process ends, the next *)
(* process loads the file                                                  *)
(***************************************************************************)
InitRound == Start(MaxRoundSteps, MaxRoundTicks)

NextRound ==
    \/ TickShort
    \/ AdminPadAdd("admin1")
    \/ CommJoinPad("judge1", 1)
    \/ \E u \in BOOLEAN : AdminCommSend("admin1", 1, u)
    \/ JudgeCommSend("judge1")
    \/ \E p \in {1, -1} : AdminCommBroadcast("admin1", "PAD", p)
    \/ SaveTimerFires
    \/ ProcessCrash("idle")
    \/ ServerStart

SpecRound == InitRound /\ [][NextRound]_vars

\* the messages of a channel, by value
MessagesOf(ids, heap) == [j \in 1..Len(ids) |-> heap[ids[j]]]

\* the step starts a process whose file holds the channels as the previous
\* process had them in memory
LoadsSavedChannels ==
    /\ ~commChannelsLoaded
    /\ commChannelsLoaded'
    /\ commFile.exists
    /\ commFile = writtenFile(commChannels, chatMsgs, commFile.mtime)

\* C39: loading the file that a save wrote gives, for every channel that was
\* in memory, the same messages in the same order, each with the same id,
\* ts, sender, acknowledgement time and urgency.
C39_SaveLoadRoundTrip ==
    [][LoadsSavedChannels =>
          \A k \in DOMAIN commChannels :
              /\ k \in DOMAIN commChannels'
              /\ MessagesOf(commChannels'[k], chatMsgs') =
                     MessagesOf(commChannels[k], chatMsgs)]_vars

(***************************************************************************)
(* Properties of the messaging: who counts as viewer of a pad              *)
(***************************************************************************)
\* getCommSnapshot without the messages: the online flag of every pad of
\* the board
getCommSnapshot(state, viewers) ==
    [p \in PadIdsOf(state) |->
        [padId |-> p,
         online |-> p \in DOMAIN viewers /\ Cardinality(viewers[p]) > 0]]

\* the pads whose viewer set holds the connection s
ViewedBy(s) == {p \in DOMAIN commPadViewers : s \in commPadViewers[p]}

\* C40: every connection is in the viewer set of at most one pad, the pad
\* its last comm:joinPad bound it to, and only judge connections are in
\* one; after its disconnect a connection is in no viewer set; a pad is
\* online in the comm snapshot exactly when its viewer set is non-empty,
\* that is when some connection is bound to it.
C40_OneViewerSetPerJudge ==
    /\ [](\A s \in Sockets :
             /\ Cardinality(ViewedBy(s)) <= 1
             /\ ViewedBy(s) = IF sockPad[s] # NoPad THEN {sockPad[s]} ELSE {}
             /\ ViewedBy(s) # {} => RoleOf(s) = "judge")
    /\ [](\A p \in PadIdsOf(boardState) :
             /\ getCommSnapshot(boardState, commPadViewers)[p].online
                    <=> (p \in DOMAIN commPadViewers /\ commPadViewers[p] # {})
             /\ getCommSnapshot(boardState, commPadViewers)[p].online
                    <=> (\E s \in Sockets : sockPad[s] = p))
    /\ [][\A s \in Sockets :
             SocketDisconnect(s) =>
                 \A p \in DOMAIN commPadViewers' : s \notin commPadViewers'[p]]_vars

\* the judge connection replied on pad 1 and has joined pad 2 since: it is a
\* viewer of pad 2 only, pad 2 is online and pad 1 is not
C40_Witness ==
    /\ {1, 2} \subseteq PadIdsOf(boardState)
    /\ sockPad["judge1"] = 2
    /\ ViewedBy("judge1") = {2}
    /\ \E i \in 1..Len(channelOf(commChannels, 1)) :
          chatMsgs[channelOf(commChannels, 1)[i]].from = "JUDGE"
    /\ getCommSnapshot(boardState, commPadViewers)[2].online
    /\ ~getCommSnapshot(boardState, commPadViewers)[1].online

=============================================================================
